---- MODULE Spec2Model ----
(***************************************************************************)
(* Model of the federated-learning worker of src/frontend/workers/         *)
(* fl.worker.ts: the message handler (INIT, START_TRAINING, STOP_TRAINING, *)
(* GET_STATUS), the training loop runTrainingLoop with its suspension      *)
(* points, and the checkpoint store (saveCheckpoint, loadLatestCheckpoint) *)
(* on the OPFS directory 'fl-checkpoints'.                                 *)
(*                                                                         *)
(* The worker is a single-threaded event loop: code between two awaits of  *)
(* real I/O (GPU requests, OPFS calls, fetch, setTimeout) runs atomically, *)
(* so every action below is one such segment.  An await of a promise that  *)
(* is already settled (an async function that returned before its first    *)
(* await) lets no message in, and is part of the same segment.             *)
(***************************************************************************)
EXTENDS Integers, Sequences, FiniteSets, TLC

VARIABLES
    isTraining,      \* fl.worker.ts:55
    shouldStop,      \* fl.worker.ts:56
    gpuDevice,       \* fl.worker.ts:57  (TRUE: a device handle, FALSE: null)
    config,          \* fl.worker.ts:58
    checkpointDir,   \* fl.worker.ts:67  (TRUE: a directory handle, FALSE: null)
    files,           \* the entries of the OPFS directory 'fl-checkpoints'
    loops,           \* one record per invocation of runTrainingLoop that passed its guard
    posted,          \* how many ERROR and TRAINING_COMPLETE messages of each kind were posted
    lastPost,        \* the message posted last (any type)
    initGpu,         \* INIT handlers suspended in initGPU
    initOpfs,        \* INIT handlers suspended in initOPFS
    liveDevices,     \* devices acquired whose `lost` promise is still pending
    nInit,           \* INIT commands handled
    nStart,          \* START_TRAINING commands handled
    trainedEpochs,   \* the epochs whose batches all ran in one session
    gpuAcq,          \* outcome of the latest device acquisition: "none", "ok", "failed"
    probe,           \* the last application of the function under study
    engine           \* the WebGPUEngine instance and the GPU buffers it created (SpecEngine)

vars ==
    <<isTraining, shouldStop, gpuDevice, config, checkpointDir, files, loops,
      posted, lastPost, initGpu, initOpfs, liveDevices, nInit, nStart,
      trainedEpochs, gpuAcq, probe, engine>>

---------------------------------------------------------------------------
(* Bounds *)

\* epochs of a TrainingConfig range over 1..MaxEpochs
MaxEpochs == 2
\* batches per epoch (the source simulates 100; the model keeps the loop shape)
TotalBatches == 2
\* elements of the adapter array (the source allocates 12288 * 12)
AdapterSize == 1
\* INIT commands the caller sends
MaxInits == 1
\* START_TRAINING commands the caller sends
MaxStarts == 2

\* telemetry is streamed when batch % 10 = 0
TelemetryEvery == 10

ModelIds == {"m1", "m2"}
EpochIds == 0 .. (MaxEpochs - 1)

\* Math.random() outcomes, in units of the smallest weight change: the initial
\* value of an element and the change of an element in one batch
InitVals == {-1, 1}
RandSteps == {-1, 1}

---------------------------------------------------------------------------
(* Float32Array <-> bytes.  A weight is a 32-bit quantity; its image in an *)
(* ArrayBuffer is 4 little-endian bytes (two's complement of the weight in *)
(* units of the smallest weight change).                                   *)

WordBytes(v) ==
    << v % 256, (v \div 256) % 256, (v \div 65536) % 256, (v \div 16777216) % 256 >>

\* adapterWeights.buffer.slice(byteOffset, byteOffset + byteLength)
ToBytes(w) ==
    [k \in 1 .. (4 * Len(w)) |-> WordBytes(w[((k - 1) \div 4) + 1])[((k - 1) % 4) + 1]]

\* new Float32Array(arrayBuffer): defined when the byte length is a multiple of 4
FromBytes(bs) ==
    [k \in 1 .. (Len(bs) \div 4) |->
        bs[4 * k - 3] + 256 * bs[4 * k - 2] + 65536 * bs[4 * k - 1]
        + 16777216 * (IF bs[4 * k] >= 128 THEN bs[4 * k] - 256 ELSE bs[4 * k])]

---------------------------------------------------------------------------
(* Checkpoint files.  A file is its byte string, held as: the text before  *)
(* the first newline byte (as what JSON.parse makes of it), whether there  *)
(* is a newline byte, and the bytes after it.                              *)

NoMeta == [ok |-> FALSE, epoch |-> -1, modelId |-> "", size |-> -1]

NoFile == [exists |-> FALSE, nl |-> FALSE, meta |-> NoMeta, rest |-> <<>>]

\* the file getFileHandle(name, {create: true}) creates when there is none
EmptyFile == [exists |-> TRUE, nl |-> FALSE, meta |-> NoMeta, rest |-> <<>>]

\* JSON.stringify({epoch, timestamp, modelId, size}) (the timestamp is never read)
MetaLine(epoch, modelId, w) ==
    [ok |-> TRUE, epoch |-> epoch, modelId |-> modelId, size |-> 4 * Len(w)]

\* what a completed saveCheckpoint leaves in the file: metadata, '\n', weights
FileContent(meta, w) ==
    [exists |-> TRUE, nl |-> TRUE, meta |-> meta, rest |-> ToBytes(w)]

NoCheckpoint == [found |-> FALSE, epoch |-> -1, weights |-> <<>>]

Present(dir) == {e \in DOMAIN dir : dir[e].exists}

\* the orders in which checkpointDir.entries() may enumerate the directory
Orders(dir) ==
    LET P == Present(dir)
        n == Cardinality(P)
    IN  {s \in [1 .. n -> P] : \A a, b \in 1 .. n : a # b => s[a] # s[b]}

\* a scan in which the entry enumerated last wins, whatever its epoch
LaterEpoch_Any(epoch, latestEpoch) == TRUE

\* if (epoch > latestEpoch) { latestEpoch = epoch; latestFile = handle; }
LaterEpoch(epoch, latestEpoch) == epoch > latestEpoch

\* the scan of the directory, from entry i of the enumeration on
RECURSIVE ScanEntries(_, _, _)
ScanEntries(order, i, latestEpoch) ==
    IF i > Len(order) THEN latestEpoch
    ELSE ScanEntries(order, i + 1,
                     IF LaterEpoch(order[i], latestEpoch) THEN order[i] ELSE latestEpoch)

\* a parse that takes the payload of a file whose first line is not JSON
ParseCheckpoint_KeepPayload(f) ==
    IF ~f.nl THEN NoCheckpoint
    ELSE IF Len(f.rest) % 4 # 0 THEN NoCheckpoint
    ELSE [found |-> TRUE, epoch |-> f.meta.epoch, weights |-> FromBytes(f.rest)]

\* the parse of the selected file
ParseCheckpoint(f) ==
    IF ~f.nl THEN NoCheckpoint                       \* newlineIndex === -1
    ELSE IF ~f.meta.ok THEN NoCheckpoint             \* JSON.parse throws
    ELSE IF Len(f.rest) % 4 # 0 THEN NoCheckpoint    \* new Float32Array throws
    ELSE [found |-> TRUE, epoch |-> f.meta.epoch, weights |-> FromBytes(f.rest)]

\* ioOk = FALSE: an OPFS call of the load throws
LoadLatestCheckpoint(dir, order, ioOk) ==
    LET latest == ScanEntries(order, 1, -1)
    IN  IF ~ioOk THEN NoCheckpoint
        ELSE IF latest = -1 THEN NoCheckpoint        \* !latestFile
        ELSE ParseCheckpoint(dir[latest])

---------------------------------------------------------------------------
(* Messages posted to the caller *)

\* kind: which postMessage of the source posted the error; sid: the loop that
\* posted a TRAINING_COMPLETE (its index in loops)
ErrorMsg(kind) ==
    [type |-> "ERROR", kind |-> kind, sid |-> 0, weightsDelta |-> <<>>,
     epochs |-> 0, modelId |-> ""]

\* the kinds of ERROR messages (one per postMessage of an error in the source)
\* and of TRAINING_COMPLETE messages (payload.status)
Kinds ==
    {"NoWebGPU", "NoAdapter", "GpuInitFailed", "DeviceLost", "OpfsFailed",
     "NotInitialized", "AlreadyRunning", "stopped", "completed"}

FatalKinds == {"NoWebGPU", "NoAdapter", "GpuInitFailed", "DeviceLost"}

\* the count of posted messages after message m
Count(m) == [posted EXCEPT ![m.kind] = @ + 1]

StoppedMsg(sid) ==
    [type |-> "TRAINING_COMPLETE", kind |-> "stopped", sid |-> sid,
     weightsDelta |-> <<>>, epochs |-> 0, modelId |-> ""]

\* weightsDelta: Array.from(weightsDelta), with weightsDelta = adapterWeights
CompletedMsg(sid, w, cfg) ==
    [type |-> "TRAINING_COMPLETE", kind |-> "completed", sid |-> sid,
     weightsDelta |-> w, epochs |-> cfg.epochs, modelId |-> cfg.modelId]

\* progress: { epoch: epoch + 1, totalEpochs, batch: batch + 1, totalBatches }
ProgressMsg(l) ==
    [type |-> "TRAINING_PROGRESS", epoch |-> l.epoch + 1, totalEpochs |-> l.epochs,
     batch |-> l.batch + 1, totalBatches |-> TotalBatches]

NoPost == [type |-> "NONE"]

NoConfig == [set |-> FALSE, modelId |-> "", epochs |-> 0]

Configs == [set : {TRUE}, modelId : ModelIds, epochs : 1 .. MaxEpochs]

---------------------------------------------------------------------------
(* runTrainingLoop: the locals of one invocation, and its control flow     *)
(* between two suspensions.                                                *)
(*   pc:  "load"       awaiting loadLatestCheckpoint                       *)
(*        "telemetry"  awaiting streamTelemetry (the fetch)                *)
(*        "sleep"      awaiting the 50 ms timer                            *)
(*        "saveOpen"   in saveCheckpoint, awaiting getFileHandle and       *)
(*                     createWritable                                      *)
(*        "saveWrite"  in saveCheckpoint, awaiting the writes and close    *)
(*        "done"       returned                                            *)
(* History fields (no effect on the control flow): w0, the adapter at      *)
(* the start of the session; nProgress, the progress events posted;        *)
(* saveCalls, the epochs saveCheckpoint was called with; written, the      *)
(* epochs whose file this session replaced; fullEpochs, the epochs whose   *)
(* batches all ran; breakEpoch/breakBatch, where the stop flag broke the   *)
(* batch loop; deviceLost, the device was lost while the loop ran;         *)
(* status, the payload.status of the terminal event the loop posted;       *)
(* telemetry, how the latest telemetry fetch of the loop settled.          *)

NewLoop ==
    [pc |-> "load", epoch |-> 0, batch |-> 0, startEpoch |-> 0, epochs |-> 0,
     w |-> <<>>, checkpoint |-> NoCheckpoint, meta |-> NoMeta,
     w0 |-> <<>>, nProgress |-> 0, saveCalls |-> <<>>, written |-> {},
     fullEpochs |-> {}, breakEpoch |-> -1, breakBatch |-> -1, deviceLost |-> FALSE,
     status |-> "", telemetry |-> "none"]

Active(l) == l.pc \notin {"done", "retired"}

\* the record of a loop that returned before an earlier START: its locals and
\* its history are gone
Retired == [NewLoop EXCEPT !.pc = "retired"]

Retire(ls) ==
    [i \in 1 .. Len(ls) |-> IF Active(ls[i]) THEN ls[i] ELSE Retired]

\* adapterWeights[i] -= learningRate * (Math.random() - 0.5) * 0.001, for every i
UpdateWeights(w, rnd) == [k \in 1 .. Len(w) |-> w[k] - rnd[k]]

\* a batch that posts its progress event only when it streams telemetry
ExecBatch_ProgressWithTelemetry(l, ep, b, rnd) ==
    [l EXCEPT !.epoch = ep, !.batch = b, !.w = UpdateWeights(l.w, rnd),
              !.nProgress = IF b % TelemetryEvery = 0 THEN @ + 1 ELSE @,
              !.pc = IF b % TelemetryEvery = 0 THEN "telemetry" ELSE "sleep"]

\* one batch: the simulated step, the progress event, then the next suspension
ExecBatch(l, ep, b, rnd) ==
    [l EXCEPT !.epoch = ep, !.batch = b, !.w = UpdateWeights(l.w, rnd),
              !.nProgress = @ + 1,
              !.pc = IF b % TelemetryEvery = 0 THEN "telemetry" ELSE "sleep"]

\* an epoch loop that ends one epoch early
OuterTop_OneFewer(l, ep, stop, rnd) ==
    IF ep + 1 < l.epochs /\ ~stop
    THEN ExecBatch(l, ep, 0, rnd)
    ELSE [l EXCEPT !.epoch = ep, !.pc = "done"]

\* for (let epoch = ...; epoch < epochs; epoch++) { if (shouldStop) break; ...
\* and, when the loop is left, the return of runTrainingLoop
OuterTop(l, ep, stop, rnd) ==
    IF ep < l.epochs /\ ~stop
    THEN ExecBatch(l, ep, 0, rnd)
    ELSE [l EXCEPT !.epoch = ep, !.pc = "done"]

\* await saveCheckpoint(epoch, adapterWeights): it returns at once without a
\* directory handle, and suspends in getFileHandle otherwise
CallSave(l, ep, stop, dirOk, rnd) ==
    LET c == [l EXCEPT !.epoch = ep, !.saveCalls = Append(@, ep)]
    IN  IF dirOk THEN [c EXCEPT !.pc = "saveOpen"]
        ELSE OuterTop(c, ep + 1, stop, rnd)

\* a batch loop that does not look at the stop flag
InnerTop_IgnoreStop(l, ep, b, stop, dirOk, rnd) ==
    IF b < TotalBatches
    THEN ExecBatch(l, ep, b, rnd)
    ELSE CallSave([l EXCEPT !.batch = b, !.fullEpochs = @ \cup {ep}], ep, stop, dirOk, rnd)

\* for (let batch = ...; batch < totalBatches; batch++) { if (shouldStop) break; ...
\* and, when the batch loop is left, the save that follows it
InnerTop(l, ep, b, stop, dirOk, rnd) ==
    IF b < TotalBatches
    THEN IF stop
         THEN CallSave([l EXCEPT !.breakEpoch = ep, !.breakBatch = b], ep, stop, dirOk, rnd)
         ELSE ExecBatch(l, ep, b, rnd)
    ELSE CallSave([l EXCEPT !.batch = b, !.fullEpochs = @ \cup {ep}], ep, stop, dirOk, rnd)

\* a resume that trains the checkpointed epoch again
StartEpochOf_Same(checkpoint) == checkpoint.epoch

\* startEpoch = checkpoint.epoch + 1
StartEpochOf(checkpoint) == checkpoint.epoch + 1

\* lines 240-263: the checkpoint decides the start epoch and the adapter
AfterLoad(l, checkpoint, cfg, stop, initW, rnd) ==
    LET w == IF checkpoint.found THEN checkpoint.weights ELSE initW
        s == IF checkpoint.found THEN StartEpochOf(checkpoint) ELSE 0
    IN  OuterTop([l EXCEPT !.checkpoint = checkpoint, !.startEpoch = s, !.w = w,
                           !.w0 = w, !.epochs = cfg.epochs],
                 s, stop, rnd)

RandVecs == [1 .. AdapterSize -> RandSteps]
InitVecs == [1 .. AdapterSize -> InitVals]

\* a terminal event that does not look at the stop flag
TerminalMsg_Completed(sid, l, stop, cfg) == CompletedMsg(sid, l.w, cfg)

\* lines 304-321: the terminal event of a loop that returned
TerminalMsg(sid, l, stop, cfg) ==
    IF stop THEN StoppedMsg(sid) ELSE CompletedMsg(sid, l.w, cfg)

\* a segment that leaves isTraining set when the loop returns
Segment_StaysTraining(i, new, stop, running) ==
    LET before == IF i > Len(loops) THEN 0 ELSE loops[i].nProgress
        fin == IF new.pc = "done"
               THEN [new EXCEPT !.status = TerminalMsg(i, new, stop, config).kind]
               ELSE new
    IN  /\ loops' = IF i > Len(loops) THEN Append(Retire(loops), fin)
                    ELSE [loops EXCEPT ![i] = fin]
        /\ trainedEpochs' = trainedEpochs \cup new.fullEpochs
        /\ IF new.pc = "done"
           THEN /\ isTraining' = running
                /\ posted' = Count(TerminalMsg(i, new, stop, config))
                /\ lastPost' = TerminalMsg(i, new, stop, config)
           ELSE /\ isTraining' = running
                /\ posted' = posted
                /\ lastPost' = IF new.nProgress > before THEN ProgressMsg(new)
                               ELSE lastPost

\* the globals a segment of loop i leaves behind, given the loop's new record;
\* running is isTraining as the segment found or set it
Segment(i, new, stop, running) ==
    LET before == IF i > Len(loops) THEN 0 ELSE loops[i].nProgress
        fin == IF new.pc = "done"
               THEN [new EXCEPT !.status = TerminalMsg(i, new, stop, config).kind]
               ELSE new
    IN  /\ loops' = IF i > Len(loops) THEN Append(Retire(loops), fin)
                    ELSE [loops EXCEPT ![i] = fin]
        /\ trainedEpochs' = trainedEpochs \cup new.fullEpochs
        /\ IF new.pc = "done"
           THEN /\ isTraining' = FALSE
                /\ posted' = Count(TerminalMsg(i, new, stop, config))
                /\ lastPost' = TerminalMsg(i, new, stop, config)
           ELSE /\ isTraining' = running
                /\ posted' = posted
                /\ lastPost' = IF new.nProgress > before THEN ProgressMsg(new)
                               ELSE lastPost

PostError(kind) ==
    /\ posted' = Count(ErrorMsg(kind))
    /\ lastPost' = ErrorMsg(kind)

---------------------------------------------------------------------------
(* self.onmessage, case 'INIT', with initGPU and initOPFS *)

\* config = payload; gpuDevice = await initGPU(): without navigator.gpu, initGPU
\* posts its error and returns null before any suspension
InitCmdUpTo(limit) ==
    /\ nInit < limit
    /\ nInit' = nInit + 1
    /\ \E cfg \in Configs, supported \in BOOLEAN :
        /\ config' = cfg
        /\ IF supported
           THEN /\ initGpu' = initGpu + 1
                /\ UNCHANGED <<gpuDevice, gpuAcq, initOpfs, posted, lastPost>>
           ELSE /\ gpuDevice' = FALSE
                /\ gpuAcq' = "failed"
                /\ initOpfs' = initOpfs + 1
                /\ PostError("NoWebGPU")
                /\ UNCHANGED initGpu
    /\ UNCHANGED <<isTraining, shouldStop, checkpointDir, files, loops, liveDevices,
                   nStart, trainedEpochs, probe, engine>>

InitCmd == InitCmdUpTo(MaxInits)

\* requestAdapter / requestDevice settle: a device, no adapter, or an exception
InitGPUDone ==
    /\ initGpu > 0
    /\ initGpu' = initGpu - 1
    /\ initOpfs' = initOpfs + 1
    /\ \E outcome \in {"device", "NoAdapter", "GpuInitFailed"} :
        IF outcome = "device"
        THEN /\ gpuDevice' = TRUE
             /\ gpuAcq' = "ok"
             /\ liveDevices' = liveDevices + 1
             /\ UNCHANGED <<posted, lastPost>>
        ELSE /\ gpuDevice' = FALSE
             /\ gpuAcq' = "failed"
             /\ PostError(outcome)
             /\ UNCHANGED liveDevices
    /\ UNCHANGED <<isTraining, shouldStop, config, checkpointDir, files, loops,
                   nInit, nStart, trainedEpochs, probe, engine>>

\* the reply of the INIT handler
InitReply(gpu, opfs) == [type |-> "INIT", gpu |-> gpu, opfs |-> opfs]

\* initOPFS settles, and the handler posts its reply
InitOPFSDone ==
    /\ initOpfs > 0
    /\ initOpfs' = initOpfs - 1
    /\ \E opfsReady \in BOOLEAN :
        /\ checkpointDir' = (checkpointDir \/ opfsReady)
        /\ posted' = IF opfsReady THEN posted ELSE Count(ErrorMsg("OpfsFailed"))
        /\ lastPost' = InitReply(gpuDevice, opfsReady)
    /\ UNCHANGED <<isTraining, shouldStop, gpuDevice, config, files, loops, initGpu,
                   liveDevices, nInit, nStart, trainedEpochs, gpuAcq, probe, engine>>

\* device.lost.then(...): the error is posted and the handle dropped; the
\* training loop reads neither
DeviceLost ==
    /\ liveDevices > 0
    /\ liveDevices' = liveDevices - 1
    /\ gpuDevice' = FALSE
    /\ PostError("DeviceLost")
    /\ loops' = [i \in 1 .. Len(loops) |->
                    IF Active(loops[i]) THEN [loops[i] EXCEPT !.deviceLost = TRUE]
                    ELSE loops[i]]
    /\ UNCHANGED <<isTraining, shouldStop, config, checkpointDir, files, initGpu,
                   initOpfs, nInit, nStart, trainedEpochs, gpuAcq, probe, engine>>

---------------------------------------------------------------------------
(* self.onmessage, cases 'START_TRAINING', 'STOP_TRAINING', 'GET_STATUS' *)

\* a guard that does not look at the device handle
LoopGuard_ConfigOnly == config.set

\* if (!config || !gpuDevice) { postMessage(ERROR 'Training not initialized'); return; }
LoopGuard == config.set /\ gpuDevice

\* a runTrainingLoop that leaves the stop flag as it finds it
RunTrainingLoop_KeepStop ==
    IF ~LoopGuard
    THEN /\ PostError("NotInitialized")
         /\ UNCHANGED <<isTraining, shouldStop, loops, trainedEpochs>>
    ELSE /\ shouldStop' = shouldStop
         /\ IF checkpointDir
            THEN Segment(Len(loops) + 1, NewLoop, shouldStop, TRUE)
            ELSE \E initW \in InitVecs, rnd \in RandVecs :
                    Segment(Len(loops) + 1,
                            AfterLoad(NewLoop, NoCheckpoint, config, shouldStop, initW, rnd),
                            shouldStop, TRUE)

\* runTrainingLoop() up to its first suspension
RunTrainingLoop ==
    IF ~LoopGuard
    THEN /\ PostError("NotInitialized")
         /\ UNCHANGED <<isTraining, shouldStop, loops, trainedEpochs>>
    ELSE /\ shouldStop' = FALSE
         /\ IF checkpointDir
            THEN Segment(Len(loops) + 1, NewLoop, FALSE, TRUE)
            ELSE \E initW \in InitVecs, rnd \in RandVecs :
                    Segment(Len(loops) + 1,
                            AfterLoad(NewLoop, NoCheckpoint, config, FALSE, initW, rnd),
                            FALSE, TRUE)

\* a START_TRAINING handler that does not look at isTraining
StartCmd_NoGuard ==
    /\ nStart < MaxStarts
    /\ nStart' = nStart + 1
    /\ RunTrainingLoop
    /\ UNCHANGED <<gpuDevice, config, checkpointDir, files, initGpu, initOpfs,
                   liveDevices, nInit, gpuAcq, probe, engine>>

StartCmd ==
    /\ nStart < MaxStarts
    /\ nStart' = nStart + 1
    /\ IF isTraining
       THEN /\ PostError("AlreadyRunning")
            /\ UNCHANGED <<isTraining, shouldStop, loops, trainedEpochs>>
       ELSE RunTrainingLoop
    /\ UNCHANGED <<gpuDevice, config, checkpointDir, files, initGpu, initOpfs,
                   liveDevices, nInit, gpuAcq, probe, engine>>

StopCmd ==
    /\ shouldStop' = TRUE
    /\ UNCHANGED <<isTraining, gpuDevice, config, checkpointDir, files, loops, posted,
                   lastPost, initGpu, initOpfs, liveDevices, nInit, nStart,
                   trainedEpochs, gpuAcq, probe, engine>>

StatusReply ==
    [type |-> "GET_STATUS", isTraining |-> isTraining, hasGPU |-> gpuDevice,
     config |-> config]

GetStatusCmd ==
    /\ lastPost' = StatusReply
    /\ UNCHANGED <<isTraining, shouldStop, gpuDevice, config, checkpointDir, files,
                   loops, posted, initGpu, initOpfs, liveDevices, nInit, nStart,
                   trainedEpochs, gpuAcq, probe, engine>>

---------------------------------------------------------------------------
(* The resumptions of runTrainingLoop *)

LoopFrame ==
    UNCHANGED <<shouldStop, gpuDevice, config, checkpointDir, initGpu, initOpfs,
                liveDevices, nInit, nStart, gpuAcq, probe, engine>>

\* loadLatestCheckpoint settles
LoadDone ==
    \E i \in 1 .. Len(loops) :
        /\ loops[i].pc = "load"
        /\ \E order \in Orders(files), ioOk \in BOOLEAN,
              initW \in InitVecs, rnd \in RandVecs :
            Segment(i,
                    AfterLoad(loops[i], LoadLatestCheckpoint(files, order, ioOk),
                              config, shouldStop, initW, rnd),
                    shouldStop, isTraining)
        /\ UNCHANGED files
        /\ LoopFrame

\* a loop that a failed telemetry fetch ends
AfterTelemetry_Fatal(l, outcome) ==
    [l EXCEPT !.pc = IF outcome = "failed" THEN "done" ELSE "sleep",
              !.telemetry = outcome]

\* streamTelemetry returns, after the fetch resolved ("sent") or after its
\* catch swallowed the rejection ("failed"): the timer is next
AfterTelemetry(l, outcome) ==
    [l EXCEPT !.pc = "sleep", !.telemetry = outcome]

\* the telemetry fetch settles
TelemetryDone ==
    \E i \in 1 .. Len(loops), outcome \in {"sent", "failed"} :
        /\ loops[i].pc = "telemetry"
        /\ Segment(i, AfterTelemetry(loops[i], outcome), shouldStop, isTraining)
        /\ UNCHANGED files
        /\ LoopFrame

\* the timer fires: batch++, and the batch loop goes on
SleepDone ==
    \E i \in 1 .. Len(loops) :
        /\ loops[i].pc = "sleep"
        /\ \E rnd \in RandVecs :
            Segment(i,
                    InnerTop(loops[i], loops[i].epoch, loops[i].batch + 1,
                             shouldStop, checkpointDir, rnd),
                    shouldStop, isTraining)
        /\ UNCHANGED files
        /\ LoopFrame

\* the file a getFileHandle(name, {create: true}) that succeeded leaves
Created(f) == IF f.exists THEN f ELSE EmptyFile

\* getFileHandle and createWritable settle.  "opened": the metadata line is
\* built (from the config of this moment) and the writes begin; "noHandle":
\* getFileHandle threw; "noWritable": createWritable threw.  A throw is caught
\* in saveCheckpoint, and the epoch loop goes on.
SaveOpenDone ==
    \E i \in 1 .. Len(loops) :
        /\ loops[i].pc = "saveOpen"
        /\ \E outcome \in {"opened", "noHandle", "noWritable"}, rnd \in RandVecs :
            LET l == loops[i]
            IN  /\ files' = IF outcome = "noHandle" THEN files
                            ELSE [files EXCEPT ![l.epoch] = Created(@)]
                /\ IF outcome = "opened"
                   THEN Segment(i,
                                [l EXCEPT !.pc = "saveWrite",
                                          !.meta = MetaLine(l.epoch, config.modelId, l.w)],
                                shouldStop, isTraining)
                   ELSE Segment(i, OuterTop(l, l.epoch + 1, shouldStop, rnd),
                                shouldStop, isTraining)
        /\ LoopFrame

\* the writes and close() settle: on close the file holds the new content; a
\* throw leaves the file as it was
SaveWriteDone ==
    \E i \in 1 .. Len(loops) :
        /\ loops[i].pc = "saveWrite"
        /\ \E closed \in BOOLEAN, rnd \in RandVecs :
            LET l == loops[i]
                c == IF closed THEN [l EXCEPT !.written = @ \cup {l.epoch}] ELSE l
            IN  /\ files' = IF closed
                            THEN [files EXCEPT ![l.epoch] = FileContent(l.meta, l.w)]
                            ELSE files
                /\ Segment(i, OuterTop(c, l.epoch + 1, shouldStop, rnd),
                           shouldStop, isTraining)
        /\ LoopFrame

---------------------------------------------------------------------------

NoProbe == [applied |-> FALSE, order |-> <<>>, ioOk |-> TRUE, result |-> NoCheckpoint]

\* let webgpuEngine: WebGPUEngine | null = null (the worker never constructs one)
NoEngine ==
    [made |-> FALSE, device |-> FALSE, loraABuffer |-> 0, loraBBuffer |-> 0,
     gradientsBuffer |-> 0, buffers |-> <<>>, extracts |-> <<>>, calls |-> 0,
     lastCall |-> [op |-> "", threw |-> FALSE, prev |-> ""], cleared |-> FALSE,
     readDestroyed |-> FALSE]

Init ==
    /\ isTraining = FALSE
    /\ shouldStop = FALSE
    /\ gpuDevice = FALSE
    /\ config = NoConfig
    /\ checkpointDir = FALSE
    /\ files = [e \in EpochIds |-> NoFile]
    /\ loops = <<>>
    /\ posted = [k \in Kinds |-> 0]
    /\ lastPost = NoPost
    /\ initGpu = 0
    /\ initOpfs = 0
    /\ liveDevices = 0
    /\ nInit = 0
    /\ nStart = 0
    /\ trainedEpochs = {}
    /\ gpuAcq = "none"
    /\ probe = NoProbe
    /\ engine = NoEngine

Next ==
    \/ InitCmd
    \/ InitGPUDone
    \/ InitOPFSDone
    \/ DeviceLost
    \/ StartCmd
    \/ StopCmd
    \/ GetStatusCmd
    \/ LoadDone
    \/ TelemetryDone
    \/ SleepDone
    \/ SaveOpenDone
    \/ SaveWriteDone

Spec == Init /\ [][Next]_vars

---------------------------------------------------------------------------
(* The checkpoint store on its own: saveCheckpoint and loadLatestCheckpoint *)
(* applied to directories of well-formed and of damaged checkpoint files.   *)

\* adapter arrays written to the checkpoints of SpecLoad
LoadVals == {-300, 258}
LoadVecs == [1 .. AdapterSize -> LoadVals]

\* a file whose payload lost or gained bytes after its metadata was written
Resized(f, n) ==
    [f EXCEPT !.rest = IF n < 0 THEN SubSeq(f.rest, 1, Len(f.rest) + n)
                       ELSE f.rest \o [k \in 1 .. n |-> 0]]

\* the files saveCheckpoint(e, w) leaves
SavedFiles(e) ==
    {FileContent(MetaLine(e, "m1", w), w) : w \in LoadVecs}

\* files that are not as saveCheckpoint leaves them: a payload of another
\* length, a file created and never written, a first line that is not JSON
DamagedFiles(e) ==
    {Resized(f, n) : f \in SavedFiles(e), n \in {-4, -1, 1, 4}}
    \cup {EmptyFile}
    \cup {[f EXCEPT !.meta = NoMeta] : f \in SavedFiles(e)}

\* the file f under the name of epoch e
AtEpoch(f, e) == IF f.meta.ok THEN [f EXCEPT !.meta.epoch = e] ELSE f

\* the directories the load is applied to
DirChoices ==
    {[e \in EpochIds |-> AtEpoch(d[e], e)] :
        d \in [EpochIds -> SavedFiles(0) \cup DamagedFiles(0) \cup {NoFile}]}

InitLoad ==
    /\ isTraining = FALSE
    /\ shouldStop = FALSE
    /\ gpuDevice = FALSE
    /\ config = NoConfig
    /\ checkpointDir = TRUE
    /\ files \in DirChoices
    /\ loops = <<>>
    /\ posted = [k \in Kinds |-> 0]
    /\ lastPost = NoPost
    /\ initGpu = 0
    /\ initOpfs = 0
    /\ liveDevices = 0
    /\ nInit = 0
    /\ nStart = 0
    /\ trainedEpochs = {}
    /\ gpuAcq = "none"
    /\ probe = NoProbe
    /\ engine = NoEngine

LoadFrame ==
    UNCHANGED <<isTraining, shouldStop, gpuDevice, config, checkpointDir, loops, posted,
                lastPost, initGpu, initOpfs, liveDevices, nInit, nStart, trainedEpochs,
                gpuAcq, engine>>

\* saveCheckpoint(epoch, adapterWeights), run to its end without a throw
SaveProbe ==
    /\ ~probe.applied
    /\ \E e \in EpochIds, m \in ModelIds, w \in LoadVecs :
        files' = [files EXCEPT ![e] = FileContent(MetaLine(e, m, w), w)]
    /\ UNCHANGED probe
    /\ LoadFrame

\* loadLatestCheckpoint()
LoadProbe ==
    /\ ~probe.applied
    /\ \E order \in Orders(files), ioOk \in BOOLEAN :
        probe' = [applied |-> TRUE, order |-> order, ioOk |-> ioOk,
                  result |-> LoadLatestCheckpoint(files, order, ioOk)]
    /\ UNCHANGED files
    /\ LoadFrame

NextLoad ==
    \/ SaveProbe
    \/ LoadProbe

SpecLoad == InitLoad /\ [][NextLoad]_vars

---------------------------------------------------------------------------
(* Properties *)

MaxOf(S) == CHOOSE x \in S : \A y \in S : y <= x

\* a file as saveCheckpoint(e, w) leaves it, for some w
WellFormed(f, e) ==
    /\ f.exists /\ f.nl /\ f.meta.ok
    /\ f.meta.epoch = e
    /\ f.meta.size = Len(f.rest)
    /\ Len(f.rest) % 4 = 0

\* C5: with well-formed checkpoint files in the directory, enumerated in any
\* order, loadLatestCheckpoint returns the largest epoch that has a file,
\* with the weights whose bytes are that file's payload; with no file in the
\* directory it returns none.  (The OPFS calls of the load do not throw.)
C5_LoadLatestSelectsMaxEpoch ==
    (probe.applied /\ probe.ioOk /\ \A e \in Present(files) : WellFormed(files[e], e))
    => IF Present(files) = {}
       THEN probe.result = NoCheckpoint
       ELSE LET k == MaxOf(Present(files))
            IN  /\ probe.result.found
                /\ probe.result.epoch = k
                /\ ToBytes(probe.result.weights) = files[k].rest

\* C5 witness: files for epochs 0 and 1, the newer one enumerated first
C5_Witness ==
    /\ probe.applied /\ probe.ioOk
    /\ Present(files) = {0, 1}
    /\ \A e \in Present(files) : WellFormed(files[e], e)
    /\ probe.order = <<1, 0>>
    /\ probe.result.found /\ probe.result.epoch = 1
    /\ files[0].rest # files[1].rest

\* the latest checkpoint file declares a size that its payload does not have
LatestSizeMismatch ==
    /\ Present(files) # {}
    /\ LET f == files[MaxOf(Present(files))]
       IN  f.nl /\ f.meta.ok /\ f.meta.size # Len(f.rest)

\* C10: a checkpoint whose payload length differs from the size its metadata
\* declares is unreadable: loadLatestCheckpoint returns none.
C10_SizeMismatchIsAbsent ==
    (probe.applied /\ LatestSizeMismatch) => probe.result = NoCheckpoint

---------------------------------------------------------------------------
(* Properties of the worker *)

LoopIds == 1 .. Len(loops)

\* a START_TRAINING command is handled in this step
StartHandled == nStart' = nStart + 1

\* C1: a START_TRAINING handled while isTraining is answered with the
\* 'Training already in progress' error and changes nothing else: no loop is
\* added, and the loops (epoch, batch, weights), the stop flag, isTraining
\* and the checkpoint files are as before.
C1_AlreadyRunningRejected ==
    [][(isTraining /\ StartHandled)
        => /\ lastPost' = ErrorMsg("AlreadyRunning")
           /\ posted' = Count(ErrorMsg("AlreadyRunning"))
           /\ UNCHANGED <<loops, shouldStop, isTraining, files, config, gpuDevice>>]_vars

\* C1 witness: a START was rejected while a loop that has run a batch goes on
C1_Witness ==
    /\ posted["AlreadyRunning"] >= 1
    /\ isTraining
    /\ lastPost = ErrorMsg("AlreadyRunning")
    /\ \E i \in LoopIds : Active(loops[i]) /\ loops[i].nProgress >= 1

\* C2: a loop that the stop flag broke out of in the middle of epoch e ends
\* with status 'stopped' and has written no checkpoint for an epoch >= e.
C2_NoCheckpointForStoppedEpoch ==
    \A i \in LoopIds :
        (loops[i].pc = "done" /\ loops[i].breakEpoch >= 0)
        => /\ loops[i].status = "stopped"
           /\ \A e \in loops[i].written : e < loops[i].breakEpoch

\* C3: a loop that found a checkpoint of epoch k starts at epoch k + 1 with
\* the weights of that checkpoint (the payload of file k, not a new random
\* adapter), trains no epoch before k + 1, and its first call of
\* saveCheckpoint, if any, is for epoch k + 1.
C3_ResumeAfterCheckpoint ==
    \A i \in LoopIds :
        LET l == loops[i]
            k == l.checkpoint.epoch
        IN  (l.pc \notin {"load", "retired"} /\ l.checkpoint.found)
            => /\ l.startEpoch = k + 1
               /\ l.w0 = l.checkpoint.weights
               /\ ToBytes(l.w0) = files[k].rest
               /\ l.epoch >= k + 1
               /\ l.saveCalls # <<>> => l.saveCalls[1] = k + 1

\* C3 witness: a resumed loop has trained and saved the epoch after the checkpoint
C3_Witness ==
    \E i \in LoopIds :
        /\ loops[i].checkpoint.found
        /\ loops[i].checkpoint.epoch = 0
        /\ loops[i].nProgress >= 1
        /\ 1 \in loops[i].written

\* C4: with the one config of the worker, a loop that ends with status
\* 'completed' leaves every epoch 0 .. epochs-1 trained: all batches of the
\* epoch ran in some session.
C4_AllEpochsTrained ==
    \A i \in LoopIds :
        (loops[i].pc = "done" /\ loops[i].status = "completed")
        => \A e \in 0 .. (loops[i].epochs - 1) : e \in trainedEpochs

\* C6: the weightsDelta of the TRAINING_COMPLETE 'completed' message is, element
\* by element, the final adapter minus the adapter at the start of the session.
C6_CompletedCarriesDelta ==
    (lastPost.type = "TRAINING_COMPLETE" /\ lastPost.kind = "completed"
        /\ loops[lastPost.sid].pc = "done")
    => LET l == loops[lastPost.sid]
       IN  lastPost.weightsDelta = [k \in 1 .. Len(l.w) |-> l.w[k] - l.w0[k]]

DeviceUnavailableKinds == {"NoWebGPU", "NoAdapter", "GpuInitFailed"}

\* a device acquisition of an INIT handler fails in this step
AcquisitionFails ==
    /\ gpuAcq' = "failed"
    /\ \/ initGpu' = initGpu - 1
       \/ nInit' = nInit + 1 /\ initGpu' = initGpu

\* C7: a failed device acquisition posts one ERROR and leaves no device
\* handle; while the latest acquisition is a failed one there is no device
\* handle, and a START_TRAINING handled then is answered with an ERROR and
\* starts no loop, runs no batch and touches no checkpoint file.
C7_NoTrainingWithoutDevice ==
    [][/\ AcquisitionFails
          => /\ lastPost'.type = "ERROR"
             /\ lastPost'.kind \in DeviceUnavailableKinds
             /\ posted' = Count(lastPost')
             /\ ~gpuDevice'
       /\ gpuAcq = "failed" => ~gpuDevice
       /\ (gpuAcq = "failed" /\ StartHandled)
          => /\ lastPost'.type = "ERROR"
             /\ UNCHANGED <<loops, files, isTraining, trainedEpochs>>]_vars

\* C7 witness: after a failed acquisition a START was answered 'Training not
\* initialized'
C7_Witness ==
    /\ gpuAcq = "failed"
    /\ config.set
    /\ posted["NotInitialized"] >= 1
    /\ lastPost = ErrorMsg("NotInitialized")
    /\ loops = <<>>

\* C8: once the device was lost while a loop runs, that loop executes no
\* further batch, saves no further checkpoint and posts no 'completed'.
C8_DeviceLostTerminates ==
    [][\A i \in LoopIds :
        (Active(loops[i]) /\ loops[i].deviceLost)
        => /\ loops'[i].nProgress = loops[i].nProgress
           /\ loops'[i].saveCalls = loops[i].saveCalls
           /\ loops'[i].status # "completed"]_vars

\* the fatal faults so far: acquisitions that failed and devices that were lost
FatalFaults == nInit - initGpu - liveDevices

FatalErrors ==
    posted["NoWebGPU"] + posted["NoAdapter"] + posted["GpuInitFailed"]
    + posted["DeviceLost"]

\* C9: one ERROR event was posted for every fatal fault, and a loop that lost
\* its device posts no TRAINING_COMPLETE (neither completed nor stopped).
C9_OneTerminalErrorPerFault ==
    /\ FatalErrors = FatalFaults
    /\ \A i \in LoopIds : loops[i].deviceLost => loops[i].status = ""

---------------------------------------------------------------------------
(* Properties of the worker: whole sessions and telemetry *)

\* the epochs a loop called saveCheckpoint with
SavedEpochs(l) == {l.saveCalls[k] : k \in 1 .. Len(l.saveCalls)}

C19_TelemetryFailureSwallowed ==
    [][\A i \in LoopIds :
        (loops[i].pc = "telemetry" /\ Len(loops') = Len(loops)
            /\ loops'[i].pc # "telemetry" /\ loops'[i].telemetry = "failed")
        => /\ loops'[i] = [AfterTelemetry(loops[i], "sent") EXCEPT !.telemetry = "failed"]
           /\ posted' = posted
           /\ lastPost' = lastPost
           /\ UNCHANGED <<isTraining, shouldStop, files, trainedEpochs>>]_vars

\* C19 witness: a session whose last telemetry fetch failed completed with
\* all its checkpoints and no ERROR was posted
C19_Witness ==
    \E i \in LoopIds :
        /\ loops[i].telemetry = "failed"
        /\ loops[i].status = "completed"
        /\ loops[i].written = 0 .. (loops[i].epochs - 1)
        /\ loops[i].epochs = MaxEpochs
        /\ \A k \in Kinds \ {"completed"} : posted[k] = 0

\* a step other than the settling of a telemetry fetch in which loop i
\* executes a batch
BatchWhileTelemetryPending(i) ==
    /\ Next
    /\ ~TelemetryDone
    /\ Len(loops') = Len(loops)
    /\ loops'[i].nProgress > loops[i].nProgress

\* C20: while a telemetry fetch of a loop is pending, the loop can execute
\* its next batch.
C20_TelemetryNeverStalls ==
    \A i \in LoopIds :
        (loops[i].pc = "telemetry" /\ ~shouldStop /\ loops[i].batch + 1 < TotalBatches)
        => ENABLED BatchWhileTelemetryPending(i)

---------------------------------------------------------------------------
(* Properties of the worker: stopping *)

\* C21: once the stop flag is set while a loop runs, the flag stays set until
\* that loop has returned, and the loop starts no batch: the batch whose timer
\* or telemetry fetch is pending when STOP_TRAINING is handled is the last one
\* it executed (no progress event follows, and the adapter is not updated).
C21_NoBatchAfterStop ==
    [][\A i \in LoopIds :
        (shouldStop /\ Active(loops[i]))
        => /\ loops'[i].nProgress = loops[i].nProgress
           /\ loops[i].pc # "load" => loops'[i].w = loops[i].w
           /\ Active(loops'[i]) => shouldStop']_vars

\* C21 witness: a STOP handled while batch 0 of epoch 0 was in flight; the
\* loop broke at the top of batch 1 and returned with one batch executed
C21_Witness ==
    \E i \in LoopIds :
        /\ loops[i].pc = "done" /\ loops[i].status = "stopped"
        /\ loops[i].breakEpoch = 0 /\ loops[i].breakBatch = 1
        /\ loops[i].nProgress = 1
        /\ shouldStop

\* The worker after an INIT that acquired the device: the handler has posted
\* its reply, with the checkpoint directory acquired (opfs) or not.
InitReady ==
    /\ isTraining = FALSE
    /\ shouldStop = FALSE
    /\ gpuDevice = TRUE
    /\ config \in Configs
    /\ checkpointDir \in BOOLEAN
    /\ files = [e \in EpochIds |-> NoFile]
    /\ loops = <<>>
    /\ posted = [k \in Kinds |-> IF k = "OpfsFailed" /\ ~checkpointDir THEN 1 ELSE 0]
    /\ lastPost = InitReply(TRUE, checkpointDir)
    /\ initGpu = 0
    /\ initOpfs = 0
    /\ liveDevices = 1
    /\ nInit = 1
    /\ nStart = 0
    /\ trainedEpochs = {}
    /\ gpuAcq = "ok"
    /\ probe = NoProbe
    /\ engine = NoEngine

\* the commands START_TRAINING and STOP_TRAINING, the loss of the device and
\* the continuations of the training loop (no further INIT is received)
NextReady ==
    \/ DeviceLost
    \/ StartCmd
    \/ StopCmd
    \/ LoadDone
    \/ TelemetryDone
    \/ SleepDone
    \/ SaveOpenDone
    \/ SaveWriteDone

\* a pending I/O of the training loop settles and its continuation runs (a
\* loop is suspended in one await at a time)
LoopStep ==
    \/ LoadDone
    \/ TelemetryDone
    \/ SleepDone
    \/ SaveOpenDone
    \/ SaveWriteDone

\* That worker under the scheduling of the event loop: every pending I/O of
\* the training loop (the directory scan, the telemetry fetch, the 50 ms
\* timer, the OPFS calls of a save) settles.
SpecStop == InitReady /\ [][NextReady]_vars /\ WF_vars(LoopStep)

\* C22: whenever the stop flag is set while a loop runs, that loop later
\* returns having posted TRAINING_COMPLETE with status 'stopped', and the
\* worker is then not training.
C22_StopLeadsToStopped ==
    (shouldStop /\ \E i \in LoopIds : Active(loops[i]))
    ~> (/\ loops # <<>>
        /\ loops[Len(loops)].pc = "done"
        /\ loops[Len(loops)].status = "stopped"
        /\ lastPost = StoppedMsg(Len(loops))
        /\ ~isTraining)

\* C22 witness: a loop that a STOP ended after it had run a whole epoch has
\* posted 'stopped', and the worker is not training
C22_Witness ==
    \E i \in LoopIds :
        /\ loops[i].pc = "done" /\ loops[i].status = "stopped"
        /\ loops[i].fullEpochs # {}
        /\ lastPost = StoppedMsg(i)
        /\ ~isTraining /\ shouldStop

---------------------------------------------------------------------------
(* Properties of the worker: readiness *)

\* the directory acquisition of INIT failed: initOPFS posted its error and
\* left no directory handle
StorageFailed == posted["OpfsFailed"] > 0 /\ ~checkpointDir

\* C26: a START_TRAINING handled after the device acquisition or the
\* directory acquisition of INIT failed is answered with an ERROR, and starts
\* no loop and runs no batch.
C26_StartNeedsDeviceAndStorage ==
    [][(StartHandled /\ (gpuAcq = "failed" \/ StorageFailed))
        => /\ lastPost'.type = "ERROR"
           /\ UNCHANGED <<loops, isTraining, trainedEpochs>>]_vars

---------------------------------------------------------------------------
(* Properties of the worker: the initial adapter *)

\* the positions of the zero elements of an adapter array
ZeroElements(w) == {k \in 1 .. Len(w) : w[k] = 0}

\* C29: the adapter of a session that found no checkpoint starts with the
\* elements of B at zero: the adapter array holds A and B, of equal sizes, so
\* at least half of its elements are zero.
C29_InitialBIsZero ==
    \A i \in LoopIds :
        (loops[i].pc \notin {"load", "retired"} /\ ~loops[i].checkpoint.found)
        => 2 * Cardinality(ZeroElements(loops[i].w0)) >= Len(loops[i].w0)

---------------------------------------------------------------------------
(* Properties of the worker: the checkpoint directory across sessions *)

\* C23: a file that holds a checkpoint (a save wrote it and closed it) is
\* never written again: in every step every such file keeps its content, and
\* a save closes only a file that held no checkpoint.
C23_CheckpointsNeverRewritten ==
    [][\A e \in EpochIds :
        /\ files[e].nl => files'[e] = files[e]
        /\ \A i \in LoopIds :
            (Len(loops') = Len(loops) /\ e \in loops'[i].written \ loops[i].written)
            => ~files[e].nl]_vars

\* INIT commands the caller sends to a worker that is Ready
MaxReinits == 1

\* an INIT command received after the one that made the worker Ready
Reinit == InitCmdUpTo(1 + MaxReinits)

\* the worker after its first INIT, with further INIT commands, START_TRAINING
\* and the continuations of both handlers
NextReinit ==
    \/ Reinit
    \/ InitGPUDone
    \/ InitOPFSDone
    \/ StartCmd
    \/ LoadDone
    \/ TelemetryDone
    \/ SleepDone
    \/ SaveOpenDone
    \/ SaveWriteDone

SpecReinit == InitReady /\ [][NextReinit]_vars

\* C24: the 'completed' event of a session reports the epoch count the session
\* ran with and the model identifier its checkpoints were written with.
C24_SessionConfigStable ==
    (lastPost.type = "TRAINING_COMPLETE" /\ lastPost.kind = "completed"
        /\ loops[lastPost.sid].pc = "done")
    => LET l == loops[lastPost.sid]
       IN  /\ lastPost.epochs = l.epochs
           /\ \A e \in l.written : files[e].meta.modelId = lastPost.modelId

\* C25: a checkpoint that loadLatestCheckpoint returns to a session was
\* written under the model identifier the worker is configured with.
C25_ResumeOnlyOwnModel ==
    [][\A i \in LoopIds :
        (Len(loops') = Len(loops) /\ loops[i].pc = "load" /\ loops'[i].checkpoint.found)
        => files[loops'[i].checkpoint.epoch].meta.modelId = config.modelId]_vars

---------------------------------------------------------------------------
(* The wire codec: the frame builder of uploadWeightsBinary, the frame     *)
(* parser of fetchGlobalWeights and deserializeWeights of the engine.      *)
(* A buffer is its sequence of bytes.  The JSON text of a header is held   *)
(* as the bytes '{', deltaALength, deltaBLength, numExamples, the          *)
(* characters of deviceId, '}': its byte length varies with deviceId as    *)
(* the length of the real text does.                                       *)

\* longest matrix (in elements) and longest deviceId (in characters) drawn
MaxWireLen == 2
MaxIdLen == 3

WireVecs == UNION {[1 .. n -> LoadVals] : n \in 0 .. MaxWireLen}
DeviceIds == UNION {[1 .. n -> {97}] : n \in 0 .. MaxIdLen}
WireMetas == [deviceId : DeviceIds, numExamples : {0, 7}]

\* view.setUint32(0, n, true)
U32LE(n) == << n % 256, (n \div 256) % 256, (n \div 65536) % 256, (n \div 16777216) % 256 >>

\* the value view.getUint32(at, true) reads is greater than n (n < 65536)
U32Greater(buf, at, n) ==
    \/ buf[at + 4] > 0
    \/ buf[at + 3] > 0
    \/ buf[at + 1] + 256 * buf[at + 2] > n

\* the value view.getUint32(at, true) reads, when it is below 65536
U32Low(buf, at) == buf[at + 1] + 256 * buf[at + 2]

\* new TextEncoder().encode(JSON.stringify({deviceId, ..., deltaALength, deltaBLength}))
HeaderBytes(m, a, b) == <<123, a, b, m.numExamples>> \o m.deviceId \o <<125>>

NoHeader == [ok |-> FALSE, deltaALength |-> 0, deltaBLength |-> 0,
             meta |-> [deviceId |-> <<>>, numExamples |-> 0]]

\* JSON.parse(new TextDecoder().decode(headerBytes)); ok = FALSE: it throws
ParseHeader(bytes) ==
    LET n == Len(bytes)
    IN  IF n < 5 \/ bytes[1] # 123 \/ bytes[n] # 125 THEN NoHeader
        ELSE [ok |-> TRUE, deltaALength |-> bytes[2], deltaBLength |-> bytes[3],
              meta |-> [deviceId |-> SubSeq(bytes, 5, n - 1), numExamples |-> bytes[4]]]

\* the layout [u32 LE headerLength][header][body]
Frame(header, body) == U32LE(Len(header)) \o header \o body

\* new Float32Array(buffer, byteOffset, length) throws a RangeError unless
\* byteOffset is a multiple of the element size
Aligned(byteOffset) == byteOffset % 4 = 0

\* a range check that accepts every view
ViewFits_Any(buf, byteOffset, count) == TRUE

\* ... and unless byteOffset + 4 * length is within the buffer
ViewFits(buf, byteOffset, count) == byteOffset + 4 * count <= Len(buf)

\* the bytes a view of count elements at byteOffset covers
View(buf, byteOffset, count) ==
    [k \in 1 .. (4 * count) |->
        IF byteOffset + k <= Len(buf) THEN buf[byteOffset + k] ELSE 0]

EncodeFailed == [ok |-> FALSE, frame |-> <<>>]

\* uploadWeightsBinary, lines 77-111: the buffer handed to fetch, or the throw
\* that the catch turns into { success: false }
EncodeFrame(m, A, B) ==
    LET headerBytes == HeaderBytes(m, Len(A), Len(B))
        weightsOffset == 4 + Len(headerBytes)
    IN  IF ~Aligned(weightsOffset) THEN EncodeFailed
        ELSE IF ~Aligned(weightsOffset + 4 * Len(A)) THEN EncodeFailed
        ELSE [ok |-> TRUE, frame |-> Frame(headerBytes, ToBytes(A) \o ToBytes(B))]

NoWeights == [ok |-> FALSE, A |-> <<>>, B |-> <<>>]

\* fetchGlobalWeights, lines 153-170: { A, B }, or the null an exception leaves
DecodeFrame(buf) ==
    IF Len(buf) < 4 THEN NoWeights                               \* getUint32 throws
    ELSE IF U32Greater(buf, 0, Len(buf) - 4) THEN NoWeights      \* new Uint8Array throws
    ELSE LET headerLength == U32Low(buf, 0)
             header == ParseHeader(SubSeq(buf, 5, 4 + headerLength))
             weightsOffset == 4 + headerLength
             bOffset == weightsOffset + 4 * header.deltaALength
         IN  IF ~header.ok THEN NoWeights                        \* JSON.parse throws
             ELSE IF ~Aligned(weightsOffset) THEN NoWeights
             ELSE IF ~ViewFits(buf, weightsOffset, header.deltaALength) THEN NoWeights
             ELSE IF ~ViewFits(buf, bOffset, header.deltaBLength) THEN NoWeights
             ELSE [ok |-> TRUE,
                   A |-> FromBytes(View(buf, weightsOffset, header.deltaALength)),
                   B |-> FromBytes(View(buf, bOffset, header.deltaBLength))]

\* WebGPUEngine.deserializeWeights: { A, B }, or ok = FALSE: a RangeError is thrown
DeserializeWeights(buf) ==
    IF Len(buf) < 8 THEN NoWeights                               \* getUint32 throws
    ELSE IF U32Greater(buf, 0, (Len(buf) - 8) \div 4) THEN NoWeights
    ELSE IF U32Greater(buf, 4, (Len(buf) - 8) \div 4) THEN NoWeights
    ELSE LET aLength == U32Low(buf, 0)
             bLength == U32Low(buf, 4)
         IN  IF ~ViewFits(buf, 8, aLength) THEN NoWeights
             ELSE IF ~ViewFits(buf, 8 + aLength * 4, bLength) THEN NoWeights
             ELSE [ok |-> TRUE,
                   A |-> FromBytes(View(buf, 8, aLength)),
                   B |-> FromBytes(View(buf, 8 + aLength * 4, bLength))]

\* the buffers a server may answer with: frames whose header declares any
\* counts over any payload, frames cut short, frames whose length field is
\* 0xFFFFFFFF, and buffers too short for a length field
ServerFrames ==
    {Frame(HeaderBytes(m, a, b), ToBytes(v)) :
        m \in WireMetas, a \in 0 .. MaxWireLen, b \in 0 .. MaxWireLen, v \in WireVecs}

CutShort(buf, n) == SubSeq(buf, 1, Len(buf) - n)

WithLengthField(buf, field) == field \o SubSeq(buf, 5, Len(buf))

AllOnes == <<255, 255, 255, 255>>

WireBuffers ==
    ServerFrames
    \cup {CutShort(f, 1) : f \in ServerFrames}
    \cup {WithLengthField(f, AllOnes) : f \in ServerFrames}
    \cup {AllOnes \o [k \in 1 .. 12 |-> 0]}
    \cup {<<>>, <<8>>, <<8, 0>>, <<8, 0, 0>>}

\* the buffers deserializeWeights may be given: two counts and a payload
CountFrames ==
    {U32LE(a) \o U32LE(b) \o ToBytes(v) :
        a \in 0 .. MaxWireLen, b \in 0 .. MaxWireLen, v \in WireVecs}

CountBuffers ==
    CountFrames
    \cup {CutShort(f, 1) : f \in CountFrames}
    \cup {WithLengthField(f, AllOnes) : f \in CountFrames}
    \cup {<<>>, <<1>>, <<1, 0, 0, 0>>, <<1, 0, 0, 0, 0, 0, 0>>}

InitWire ==
    /\ Init

\* uploadWeightsBinary builds a frame, and fetchGlobalWeights parses it
RoundTripProbe ==
    /\ ~probe.applied
    /\ \E m \in WireMetas, A \in WireVecs, B \in WireVecs :
        LET enc == EncodeFrame(m, A, B)
        IN  probe' = [applied |-> TRUE, op |-> "roundtrip", meta |-> m, A |-> A, B |-> B,
                      encoded |-> enc,
                      result |-> IF enc.ok THEN DecodeFrame(enc.frame) ELSE NoWeights]
    /\ UNCHANGED files
    /\ LoadFrame

\* fetchGlobalWeights parses the buffer of a response
DecodeProbe ==
    /\ ~probe.applied
    /\ \E buf \in WireBuffers :
        probe' = [applied |-> TRUE, op |-> "decode", buf |-> buf,
                  result |-> DecodeFrame(buf)]
    /\ UNCHANGED files
    /\ LoadFrame

\* deserializeWeights(buffer)
DeserializeProbe ==
    /\ ~probe.applied
    /\ \E buf \in CountBuffers :
        probe' = [applied |-> TRUE, op |-> "deserialize", buf |-> buf,
                  result |-> DeserializeWeights(buf)]
    /\ UNCHANGED files
    /\ LoadFrame

\* WebGPUEngine.serializeWeights: [u32 LE aLength][u32 LE bLength][A][B]; the
\* views it writes through start at 8 and 8 + 4 * aLength, always aligned
SerializeWeights(A, B) == U32LE(Len(A)) \o U32LE(Len(B)) \o ToBytes(A) \o ToBytes(B)

\* A Float32Array is its storage: a range of the ArrayBuffer it was made on
\* ("buffer"), or elements of its own ("own").

\* a return of the view itself
CopyOfView_Alias(buf, byteOffset, count) ==
    [store |-> "buffer", byteOffset |-> byteOffset, count |-> count, data |-> <<>>]

\* new Float32Array(view): a new array with the elements of the view copied
CopyOfView(buf, byteOffset, count) ==
    [store |-> "own", byteOffset |-> 0, count |-> count,
     data |-> FromBytes(View(buf, byteOffset, count))]

\* the elements read from an array, given the present bytes of the buffer
ReadArray(arr, buf) ==
    IF arr.store = "buffer" THEN FromBytes(View(buf, arr.byteOffset, arr.count))
    ELSE arr.data

NoArrays == [ok |-> FALSE, A |-> CopyOfView(<<>>, 0, 0), B |-> CopyOfView(<<>>, 0, 0)]

\* deserializeWeights: the arrays of the object it returns
DeserializeArrays(buf) ==
    LET r == DeserializeWeights(buf)
    IN  IF ~r.ok THEN NoArrays
        ELSE [ok |-> TRUE,
              A |-> CopyOfView(buf, 8, Len(r.A)),
              B |-> CopyOfView(buf, 8 + Len(r.A) * 4, Len(r.B))]

\* deserializeWeights(serializeWeights({ A, B }))
SerializeProbe ==
    /\ ~probe.applied
    /\ \E A \in WireVecs, B \in WireVecs :
        LET buf == SerializeWeights(A, B)
        IN  probe' = [applied |-> TRUE, op |-> "serialize", A |-> A, B |-> B,
                      buf |-> buf, arrays |-> DeserializeArrays(buf),
                      overwritten |-> FALSE]
    /\ UNCHANGED files
    /\ LoadFrame

\* the owner of the serialized buffer writes to it after the call: every
\* byte after the two counts is inverted
BufferOverwrite ==
    /\ probe.applied /\ probe.op = "serialize" /\ ~probe.overwritten
    /\ probe' = [probe EXCEPT
                    !.buf = [k \in 1 .. Len(@) |-> IF k <= 8 THEN @[k] ELSE 255 - @[k]],
                    !.overwritten = TRUE]
    /\ UNCHANGED files
    /\ LoadFrame

NextWire ==
    \/ RoundTripProbe
    \/ DecodeProbe
    \/ DeserializeProbe
    \/ SerializeProbe
    \/ BufferOverwrite

SpecWire == InitWire /\ [][NextWire]_vars

\* C11: every frame uploadWeightsBinary is asked to build is built, and the
\* parser of fetchGlobalWeights returns from it the matrices A and B it was
\* built from, element for element.
C11_WireRoundTrip ==
    (probe.applied /\ probe.op = "roundtrip")
    => /\ probe.encoded.ok
       /\ probe.result.ok
       /\ probe.result.A = probe.A
       /\ probe.result.B = probe.B

\* the declared header length, or the declared element counts, reach past
\* the end of the buffer
FrameTooShort(buf) ==
    \/ Len(buf) < 4
    \/ U32Greater(buf, 0, Len(buf) - 4)
    \/ LET headerLength == U32Low(buf, 0)
           header == ParseHeader(SubSeq(buf, 5, 4 + headerLength))
       IN  /\ header.ok
           /\ 4 + headerLength + 4 * (header.deltaALength + header.deltaBLength) > Len(buf)

CountsTooShort(buf) ==
    \/ Len(buf) < 8
    \/ U32Greater(buf, 0, (Len(buf) - 8) \div 4)
    \/ U32Greater(buf, 4, (Len(buf) - 8) \div 4)
    \/ 8 + 4 * (U32Low(buf, 0) + U32Low(buf, 4)) > Len(buf)

\* C12: a buffer shorter than its length field, or than the header length or
\* the element counts it declares, is refused by both parsers: no matrices
\* are returned (fetchGlobalWeights returns null, deserializeWeights throws).
C12_ShortFrameRefused ==
    /\ (probe.applied /\ probe.op = "decode" /\ FrameTooShort(probe.buf))
       => probe.result = NoWeights
    /\ (probe.applied /\ probe.op = "deserialize" /\ CountsTooShort(probe.buf))
       => probe.result = NoWeights

\* C12 witness: header length 0xFFFFFFFF on a 16-byte buffer is refused
C12_Witness ==
    /\ probe.applied /\ probe.op = "decode"
    /\ Len(probe.buf) = 16
    /\ SubSeq(probe.buf, 1, 4) = AllOnes
    /\ probe.result = NoWeights

\* C27: deserializeWeights returns matrices only from a buffer whose byte
\* length is 8 + 4 * (aLength + bLength) for the lengths it declares.
C27_LengthMismatchRejected ==
    (probe.applied /\ probe.op = "deserialize" /\ probe.result.ok)
    => Len(probe.buf) = 8 + 4 * (Len(probe.result.A) + Len(probe.result.B))

\* C28: for all matrices A and B, empty ones included, the arrays that
\* deserializeWeights returns from serializeWeights({ A, B }) have the lengths
\* and the elements of A and B, and keep them when the serialized buffer is
\* written to afterwards: they have storage of their own.
C28_SerializeRoundTrip ==
    (probe.applied /\ probe.op = "serialize")
    => /\ probe.arrays.ok
       /\ ReadArray(probe.arrays.A, probe.buf) = probe.A
       /\ ReadArray(probe.arrays.B, probe.buf) = probe.B
       /\ probe.arrays.A.count = Len(probe.A)
       /\ probe.arrays.B.count = Len(probe.B)

\* C28 witness: matrices of two and one elements went through the round trip,
\* and the serialized buffer was overwritten after it
C28_Witness ==
    /\ probe.applied /\ probe.op = "serialize" /\ probe.overwritten
    /\ Len(probe.A) = 2 /\ Len(probe.B) = 1
    /\ probe.A[1] # probe.A[2]
    /\ probe.buf # SerializeWeights(probe.A, probe.B)
    /\ ReadArray(probe.arrays.A, probe.buf) = probe.A
    /\ ReadArray(probe.arrays.B, probe.buf) = probe.B

---------------------------------------------------------------------------
(* WebGPUEngine.computeWeightDelta.  An element of the result is a number  *)
(* or NaN (what a Float32Array stores for number - undefined).             *)

Num(v) == [nan |-> FALSE, v |-> v]
NaN == [nan |-> TRUE, v |-> 0]

\* a subtraction with the operands exchanged
SubElem_Swapped(current, initial, i) ==
    IF i <= Len(initial) THEN Num(initial[i] - current[i]) ELSE NaN

\* currentA[i] - initialA[i]; initialA[i] is undefined past the end of initialA
SubElem(current, initial, i) ==
    IF i <= Len(initial) THEN Num(current[i] - initial[i]) ELSE NaN

\* const delta = new Float32Array(current.length); for (i < current.length) ...
DeltaOf(current, initial) ==
    [i \in 1 .. Len(current) |-> SubElem(current, initial, i)]

\* the function has no throw statement and no call that throws: error is ""
ComputeWeightDelta(currentA, currentB, initialA, initialB) ==
    [error |-> "", deltaA |-> DeltaOf(currentA, initialA),
     deltaB |-> DeltaOf(currentB, initialB)]

InitDelta ==
    /\ Init

\* computeWeightDelta(currentA, currentB, initialA, initialB)
DeltaProbe ==
    /\ ~probe.applied
    /\ \E cA \in WireVecs, cB \in WireVecs, iA \in WireVecs, iB \in WireVecs :
        probe' = [applied |-> TRUE, op |-> "delta",
                  currentA |-> cA, currentB |-> cB, initialA |-> iA, initialB |-> iB,
                  result |-> ComputeWeightDelta(cA, cB, iA, iB)]
    /\ UNCHANGED files
    /\ LoadFrame

NextDelta ==
    \/ DeltaProbe

SpecDelta == InitDelta /\ [][NextDelta]_vars

EqualShapes ==
    /\ Len(probe.currentA) = Len(probe.initialA)
    /\ Len(probe.currentB) = Len(probe.initialB)

\* C13: for current and initial matrices of equal lengths, computeWeightDelta
\* returns without error deltaA[i] = currentA[i] - initialA[i] for every index
\* of A and deltaB[j] = currentB[j] - initialB[j] for every index of B, with
\* the lengths of the inputs.
C13_DeltaIsElementwiseDifference ==
    (probe.applied /\ probe.op = "delta" /\ EqualShapes)
    => /\ probe.result.error = ""
       /\ Len(probe.result.deltaA) = Len(probe.currentA)
       /\ Len(probe.result.deltaB) = Len(probe.currentB)
       /\ \A i \in 1 .. Len(probe.currentA) :
            probe.result.deltaA[i] = Num(probe.currentA[i] - probe.initialA[i])
       /\ \A j \in 1 .. Len(probe.currentB) :
            probe.result.deltaB[j] = Num(probe.currentB[j] - probe.initialB[j])

\* C13 witness: matrices of two and one elements, with a nonzero difference
C13_Witness ==
    /\ probe.applied /\ probe.op = "delta" /\ EqualShapes
    /\ Len(probe.currentA) = 2 /\ Len(probe.currentB) = 1
    /\ probe.currentA[1] # probe.initialA[1]
    /\ probe.result.deltaA[1] = Num(probe.currentA[1] - probe.initialA[1])

\* C14: computeWeightDelta given a current and an initial matrix of different
\* lengths fails with a ShapeMismatch error.
C14_ShapeMismatchRejected ==
    (probe.applied /\ probe.op = "delta" /\ ~EqualShapes)
    => probe.result.error = "ShapeMismatch"

---------------------------------------------------------------------------
(* WebGPUEngine: the buffer fields of the instance and the GPU buffers it  *)
(* created.  engine.buffers is every buffer createBuffer returned, in      *)
(* order of creation, with the number of destroy() calls it received; a    *)
(* buffer field holds the index of its buffer, 0 for null.  The methods    *)
(* are synchronous but extractLoRAWeights, which suspends in mapAsync.     *)
(* History fields: calls, lastCall (the method called last, whether it     *)
(* threw, and the method called before it), cleared (destroy() ran and initializeLoRABuffers has not run    *)
(* since), readDestroyed (a copy read a buffer that had been destroyed).   *)

\* method calls made on the instance
MaxEngineCalls == 5

\* new WebGPUEngine(): the field initialisers
NewEngine == [NoEngine EXCEPT !.made = TRUE]

EngineFrame ==
    UNCHANGED <<isTraining, shouldStop, gpuDevice, config, checkpointDir, files, loops,
                posted, lastPost, initGpu, initOpfs, liveDevices, nInit, nStart,
                trainedEpochs, gpuAcq, probe>>

Called(e, op, threw) ==
    [e EXCEPT !.calls = @ + 1,
              !.lastCall = [op |-> op, threw |-> threw, prev |-> e.lastCall.op]]

\* device.createBuffer(...)
NewBuffer(kind) == [kind |-> kind, destroyCalls |-> 0]

\* buffer?.destroy() for the buffer of index b (0: null, nothing is called)
DestroyBuffer(bufs, b) ==
    IF b = 0 THEN bufs ELSE [bufs EXCEPT ![b].destroyCalls = @ + 1]

Destroyed(bufs, b) == b # 0 /\ bufs[b].destroyCalls > 0

EngineNew ==
    /\ ~engine.made
    /\ engine' = NewEngine
    /\ EngineFrame

\* initialize(device, config): this.device = device, whatever createPipelines does
EngineInitialize ==
    /\ engine.made /\ engine.calls < MaxEngineCalls
    /\ engine' = Called([engine EXCEPT !.device = TRUE], "initialize", FALSE)
    /\ EngineFrame

\* initializeLoRABuffers(inputSize, outputSize): three createBuffer calls, whose
\* results are assigned to the fields
InitializeLoRABuffers ==
    /\ engine.made /\ engine.calls < MaxEngineCalls
    /\ LET n == Len(engine.buffers)
       IN  engine' =
            IF ~engine.device THEN Called(engine, "initializeLoRABuffers", TRUE)
            ELSE Called([engine EXCEPT
                            !.buffers = @ \o <<NewBuffer("loraA"), NewBuffer("loraB"),
                                               NewBuffer("gradients")>>,
                            !.loraABuffer = n + 1,
                            !.loraBBuffer = n + 2,
                            !.gradientsBuffer = n + 3,
                            !.cleared = FALSE],
                        "initializeLoRABuffers", FALSE)
    /\ EngineFrame

\* a guard that looks at the device alone
ExtractGuard_DeviceOnly == engine.device

\* if (!this.device || !this.loraABuffer || !this.loraBBuffer) throw ...
ExtractGuard ==
    engine.device /\ engine.loraABuffer # 0 /\ engine.loraBBuffer # 0

\* extractLoRAWeights() up to its first await: the guard, the two staging
\* buffers, the copies out of the adapter buffers, the submit
ExtractLoRAWeights ==
    /\ engine.made /\ engine.calls < MaxEngineCalls
    /\ LET n == Len(engine.buffers)
       IN  engine' =
            IF ~ExtractGuard THEN Called(engine, "extractLoRAWeights", TRUE)
            ELSE Called([engine EXCEPT
                            !.buffers = @ \o <<NewBuffer("stagingA"), NewBuffer("stagingB")>>,
                            !.extracts = Append(@, [pc |-> "mapA", stagingA |-> n + 1,
                                                    stagingB |-> n + 2]),
                            !.readDestroyed =
                                \/ @
                                \/ engine.loraABuffer = 0 \/ engine.loraBBuffer = 0
                                \/ Destroyed(engine.buffers, engine.loraABuffer)
                                \/ Destroyed(engine.buffers, engine.loraBBuffer)],
                        "extractLoRAWeights", FALSE)
    /\ EngineFrame

\* a mapAsync of an extract settles.  Resolved: the next await, or, after the
\* second one, the read back, unmap and destroy of both staging buffers and the
\* return.  Rejected: the exception leaves extractLoRAWeights.
ExtractMapDone ==
    /\ \E k \in 1 .. Len(engine.extracts), resolved \in BOOLEAN :
        LET x == engine.extracts[k]
        IN  /\ x.pc \in {"mapA", "mapB"}
            /\ engine' =
                IF ~resolved THEN [engine EXCEPT !.extracts[k].pc = "rejected"]
                ELSE IF x.pc = "mapA" THEN [engine EXCEPT !.extracts[k].pc = "mapB"]
                ELSE [engine EXCEPT
                        !.extracts[k].pc = "returned",
                        !.buffers = DestroyBuffer(DestroyBuffer(@, x.stagingA), x.stagingB)]
    /\ EngineFrame

\* a destroy() that keeps the handles in the fields
EngineDestroy_KeepHandles ==
    /\ engine.made /\ engine.calls < MaxEngineCalls
    /\ engine' =
        Called([engine EXCEPT
                    !.buffers = DestroyBuffer(DestroyBuffer(DestroyBuffer(@,
                                    engine.loraABuffer), engine.loraBBuffer),
                                    engine.gradientsBuffer),
                    !.cleared = TRUE],
               "destroy", FALSE)
    /\ EngineFrame

\* destroy(): buffer?.destroy() for every field, then every field = null
\* (baseWeightsBuffer and outputBuffer are never assigned: they stay null)
EngineDestroy ==
    /\ engine.made /\ engine.calls < MaxEngineCalls
    /\ engine' =
        Called([engine EXCEPT
                    !.buffers = DestroyBuffer(DestroyBuffer(DestroyBuffer(@,
                                    engine.loraABuffer), engine.loraBBuffer),
                                    engine.gradientsBuffer),
                    !.loraABuffer = 0,
                    !.loraBBuffer = 0,
                    !.gradientsBuffer = 0,
                    !.cleared = TRUE],
               "destroy", FALSE)
    /\ EngineFrame

InitEngine ==
    /\ Init

NextEngine ==
    \/ EngineNew
    \/ EngineInitialize
    \/ InitializeLoRABuffers
    \/ ExtractLoRAWeights
    \/ ExtractMapDone
    \/ EngineDestroy

SpecEngine == InitEngine /\ [][NextEngine]_vars

\* a call of the named method is made in this step
EngineCall(op) == engine'.calls = engine.calls + 1 /\ engine'.lastCall.op = op

\* the fields of the instance
EngineFields(e) == <<e.device, e.loraABuffer, e.loraBBuffer, e.gradientsBuffer>>

\* C15: a destroy() that directly follows a destroy() does not throw, calls
\* destroy() on no GPU buffer, and leaves the fields as the first call left
\* them; and no GPU buffer ever receives a second destroy() call.
C15_DestroyIdempotent ==
    [][/\ (EngineCall("destroy") /\ engine.lastCall.op = "destroy")
          => /\ ~engine'.lastCall.threw
             /\ engine'.buffers = engine.buffers
             /\ EngineFields(engine') = EngineFields(engine)
             /\ engine'.extracts = engine.extracts
       /\ \A b \in 1 .. Len(engine'.buffers) : engine'.buffers[b].destroyCalls <= 1]_vars

\* C15 witness: two destroy() calls in a row after buffers were allocated
C15_Witness ==
    /\ engine.lastCall = [op |-> "destroy", threw |-> FALSE, prev |-> "destroy"]
    /\ Len(engine.buffers) >= 3
    /\ \A b \in 1 .. 3 : engine.buffers[b].destroyCalls = 1
    /\ engine.cleared

\* no extract is suspended
ExtractsSettled ==
    \A k \in 1 .. Len(engine.extracts) : engine.extracts[k].pc \in {"returned", "rejected"}

\* C16: after destroy(), with no extract under way, every buffer the engine
\* created has been destroyed.
C16_NoBufferLeak ==
    (engine.lastCall.op = "destroy" /\ ExtractsSettled)
    => \A b \in 1 .. Len(engine.buffers) : engine.buffers[b].destroyCalls >= 1

\* C17: an extractLoRAWeights() called after destroy(), and before a later
\* initializeLoRABuffers, throws, creates no buffer and copies nothing; and
\* no copy ever reads a destroyed (or missing) adapter buffer.
C17_NoReadAfterDestroy ==
    [][/\ (EngineCall("extractLoRAWeights") /\ engine.cleared)
          => /\ engine'.lastCall.threw
             /\ engine'.buffers = engine.buffers
             /\ engine'.extracts = engine.extracts
       /\ ~engine'.readDestroyed]_vars

\* C17 witness: an extract threw after a destroy() of allocated buffers
C17_Witness ==
    /\ engine.cleared
    /\ engine.lastCall.op = "extractLoRAWeights" /\ engine.lastCall.threw
    /\ Len(engine.buffers) >= 3
    /\ engine.device

---------------------------------------------------------------------------
(* The forward kernel of createPipelines (forwardShaderCode): one invocation *)
(* of main per global_invocation_id.x, over storage arrays indexed from 0.   *)
(* Elements and scale are integers: sums and products are exact.             *)

\* largest inputSize, outputSize and loraRank drawn
MaxDim == 2

KernelVals == {-1, 2}
KernelScales == {2}
KernelDims == 1 .. MaxDim

\* the invocations of one dispatch: ids 0 .. MaxDim, at least one of them
\* not below outputSize (a dispatch is a whole number of workgroups)
KernelIds == 0 .. MaxDim

\* arr[k] of the shader
At(arr, k) == arr[k + 1]

\* for (i < inputSize) { sum = sum + baseWeights[idx * inputSize + i] * input[i]; }
RECURSIVE BaseLoop(_, _, _, _)
BaseLoop(p, idx, i, sum) ==
    IF i < p.inputSize
    THEN BaseLoop(p, idx, i + 1,
                  sum + At(p.baseWeights, idx * p.inputSize + i) * At(p.input, i))
    ELSE sum

\* for (i < inputSize) { bContrib = bContrib + loraB[r * inputSize + i] * input[i]; }
RECURSIVE BLoop(_, _, _, _)
BLoop(p, r, i, bContrib) ==
    IF i < p.inputSize
    THEN BLoop(p, r, i + 1, bContrib + At(p.loraB, r * p.inputSize + i) * At(p.input, i))
    ELSE bContrib

\* an index into A as if A were stored rank-major
AIdx_RankMajor(p, idx, r) == r * p.outputSize + idx

\* let aIdx = idx * params.loraRank + r;
AIdx(p, idx, r) == idx * p.loraRank + r

\* for (r < loraRank) { ...; loraIntermediate = loraIntermediate + loraA[aIdx] * bContrib; }
RECURSIVE RankLoop(_, _, _, _)
RankLoop(p, idx, r, loraIntermediate) ==
    IF r < p.loraRank
    THEN RankLoop(p, idx, r + 1,
                  loraIntermediate + At(p.loraA, AIdx(p, idx, r)) * BLoop(p, r, 0, 0))
    ELSE loraIntermediate

\* an element of the output array: not written by the dispatch, or written
Unwritten == [written |-> FALSE, v |-> 0]
Stored(v) == [written |-> TRUE, v |-> v]

\* fn main: the output array after the invocation gid
KernelMain(p, output, gid) ==
    IF gid >= p.outputSize THEN output                       \* return
    ELSE [output EXCEPT ![gid + 1] =
            Stored(BaseLoop(p, gid, 0, 0) + p.scale * RankLoop(p, gid, 0, 0))]

\* the uniform and the storage arrays bound to a dispatch
KernelParams ==
    UNION {
        [inputSize : {n}, outputSize : {m}, loraRank : {k}, scale : KernelScales,
         input : [1 .. n -> KernelVals],
         baseWeights : [1 .. (m * n) -> KernelVals],
         loraA : [1 .. (m * k) -> KernelVals],
         loraB : [1 .. (k * n) -> KernelVals]]
        : n \in KernelDims, m \in KernelDims, k \in KernelDims}

InitKernel ==
    /\ Init

\* a dispatch of the forward pipeline is submitted, the output array is bound
KernelDispatch ==
    /\ ~probe.applied
    /\ \E p \in KernelParams :
        probe' = [applied |-> TRUE, op |-> "forward", params |-> p,
                  output |-> [k \in 1 .. (MaxDim + 1) |-> Unwritten], ran |-> {}]
    /\ UNCHANGED files
    /\ LoadFrame

\* one invocation of main runs (the invocations run in any order)
KernelInvocation ==
    /\ probe.applied /\ probe.op = "forward"
    /\ \E gid \in KernelIds \ probe.ran :
        probe' = [probe EXCEPT !.output = KernelMain(probe.params, @, gid),
                               !.ran = @ \cup {gid}]
    /\ UNCHANGED files
    /\ LoadFrame

NextKernel ==
    \/ KernelDispatch
    \/ KernelInvocation

SpecKernel == InitKernel /\ [][NextKernel]_vars

\* the sum of f[0], .., f[n-1]
RECURSIVE SumTo(_, _)
SumTo(f, n) == IF n = 0 THEN 0 ELSE f[n - 1] + SumTo(f, n - 1)

\* (A * B)[idx, i]
ABAt(p, idx, i) ==
    SumTo([r \in 0 .. (p.loraRank - 1) |->
            At(p.loraA, idx * p.loraRank + r) * At(p.loraB, r * p.inputSize + i)],
          p.loraRank)

\* the reference: (input * (W + scale * A * B))[idx]
Reference(p, idx) ==
    SumTo([i \in 0 .. (p.inputSize - 1) |->
            At(p.input, i)
            * (At(p.baseWeights, idx * p.inputSize + i) + p.scale * ABAt(p, idx, i))],
          p.inputSize)

\* sum_i W[idx,i] * input[i]
BaseTerm(p, idx) ==
    SumTo([i \in 0 .. (p.inputSize - 1) |->
            At(p.baseWeights, idx * p.inputSize + i) * At(p.input, i)],
          p.inputSize)

\* sum_r A[idx,r] * (sum_i B[r,i] * input[i])
LoraTerm(p, idx) ==
    SumTo([r \in 0 .. (p.loraRank - 1) |->
            At(p.loraA, idx * p.loraRank + r)
            * SumTo([i \in 0 .. (p.inputSize - 1) |->
                        At(p.loraB, r * p.inputSize + i) * At(p.input, i)],
                    p.inputSize)],
          p.loraRank)

\* C30: an invocation with idx < outputSize stores in output[idx] the value
\* sum_i W[idx,i]*input[i] + scale * sum_r A[idx,r] * (sum_i B[r,i]*input[i]),
\* which is the reference (input * (W + scale * A * B))[idx]; output[idx] is
\* written by the invocation idx only, and no element at an index >=
\* outputSize is written.
C30_ForwardKernel ==
    (probe.applied /\ probe.op = "forward")
    => LET p == probe.params
       IN  \A idx \in KernelIds :
            IF idx \in probe.ran /\ idx < p.outputSize
            THEN /\ probe.output[idx + 1].written
                 /\ probe.output[idx + 1].v = BaseTerm(p, idx) + p.scale * LoraTerm(p, idx)
                 /\ probe.output[idx + 1].v = Reference(p, idx)
            ELSE probe.output[idx + 1] = Unwritten

\* C30 witness: a dispatch with inputSize = outputSize = loraRank = 2 whose
\* invocations all ran, with a LoRA term that is not zero
C30_Witness ==
    /\ probe.applied /\ probe.op = "forward"
    /\ probe.params.inputSize = 2 /\ probe.params.outputSize = 2
    /\ probe.params.loraRank = 2
    /\ probe.ran = KernelIds
    /\ probe.output[1].written /\ probe.output[2].written
    /\ probe.output[1].v # BaseTerm(probe.params, 0)
    /\ probe.output[1].v # probe.output[2].v
    /\ probe.output[3] = Unwritten

---------------------------------------------------------------------------
(* The backward kernel of createPipelines (backwardShaderCode): one          *)
(* invocation of main per global_invocation_id.x.  gradA and gradB are the   *)
(* read_write arrays; they hold whatever an earlier dispatch left in them.   *)

BackwardRates == {3}

\* what the gradient arrays hold before the dispatch (every element alike)
StaleVals == {0, 5}

\* the invocations of one dispatch: ids 0 .. MaxDim * MaxDim, one more than
\* the largest gradient array has elements
BackwardIds == 0 .. (MaxDim * MaxDim)

\* for (i < inputSize) { grad = grad + gradOutput[outIdx] * loraB[rankIdx * inputSize + i] * input[i]; }
RECURSIVE GradALoop(_, _, _, _, _)
GradALoop(p, outIdx, rankIdx, i, grad) ==
    IF i < p.inputSize
    THEN GradALoop(p, outIdx, rankIdx, i + 1,
                   grad + At(p.gradOutput, outIdx) * At(p.loraB, rankIdx * p.inputSize + i)
                          * At(p.input, i))
    ELSE grad

\* for (o < outputSize) { grad = grad + gradOutput[o] * loraA[o * loraRank + rankIdx] * input[inIdx]; }
RECURSIVE GradBLoop(_, _, _, _, _)
GradBLoop(p, rankIdx, inIdx, o, grad) ==
    IF o < p.outputSize
    THEN GradBLoop(p, rankIdx, inIdx, o + 1,
                   grad + At(p.gradOutput, o) * At(p.loraA, o * p.loraRank + rankIdx)
                          * At(p.input, inIdx))
    ELSE grad

\* a store that adds to the element
StoreGrad_Accumulate(old, grad, learningRate) == old + grad * learningRate

\* gradA[idx] = grad * params.learningRate (and the same for gradB)
StoreGrad(old, grad, learningRate) == grad * learningRate

\* fn main: the gradient arrays after the invocation gid
BackwardMain(p, g, gid) ==
    LET g1 == IF gid < p.outputSize * p.loraRank
              THEN [g EXCEPT !.gradA[gid + 1] =
                        StoreGrad(@, GradALoop(p, gid \div p.loraRank, gid % p.loraRank, 0, 0),
                                  p.learningRate)]
              ELSE g
    IN  IF gid < p.loraRank * p.inputSize
        THEN [g1 EXCEPT !.gradB[gid + 1] =
                StoreGrad(@, GradBLoop(p, gid \div p.inputSize, gid % p.inputSize, 0, 0),
                          p.learningRate)]
        ELSE g1

\* the uniform and the read-only storage arrays bound to a dispatch
BackwardParams ==
    UNION {
        [inputSize : {n}, outputSize : {m}, loraRank : {k}, learningRate : BackwardRates,
         input : [1 .. n -> KernelVals],
         gradOutput : [1 .. m -> KernelVals],
         loraA : [1 .. (m * k) -> KernelVals],
         loraB : [1 .. (k * n) -> KernelVals]]
        : n \in KernelDims, m \in KernelDims, k \in KernelDims}

InitBackward ==
    /\ Init

\* a dispatch of the backward pipeline is submitted; the gradient arrays are
\* one element longer than the largest gradient
BackwardDispatch ==
    /\ ~probe.applied
    /\ \E p \in BackwardParams, stale \in StaleVals :
        probe' = [applied |-> TRUE, op |-> "backward", params |-> p, given |-> p,
                  stale |-> stale,
                  grads |-> [gradA |-> [k \in 1 .. (MaxDim * MaxDim + 1) |-> stale],
                             gradB |-> [k \in 1 .. (MaxDim * MaxDim + 1) |-> stale]],
                  ran |-> {}]
    /\ UNCHANGED files
    /\ LoadFrame

\* one invocation of main runs (the invocations run in any order); the
\* bindings 0-4 are read-only
BackwardInvocation ==
    /\ probe.applied /\ probe.op = "backward"
    /\ \E gid \in BackwardIds \ probe.ran :
        probe' = [probe EXCEPT !.grads = BackwardMain(probe.params, @, gid),
                               !.ran = @ \cup {gid}]
    /\ UNCHANGED files
    /\ LoadFrame

NextBackward ==
    \/ BackwardDispatch
    \/ BackwardInvocation

SpecBackward == InitBackward /\ [][NextBackward]_vars

\* learningRate * sum_i gradOutput[o] * B[r,i] * input[i]
GradARef(p, o, r) ==
    p.learningRate
    * SumTo([i \in 0 .. (p.inputSize - 1) |->
                At(p.gradOutput, o) * At(p.loraB, r * p.inputSize + i) * At(p.input, i)],
            p.inputSize)

\* learningRate * sum_o gradOutput[o] * A[o,r] * input[i]
GradBRef(p, r, i) ==
    p.learningRate
    * SumTo([o \in 0 .. (p.outputSize - 1) |->
                At(p.gradOutput, o) * At(p.loraA, o * p.loraRank + r) * At(p.input, i)],
            p.outputSize)

\* C31: after the invocations of a backward dispatch, every element (o, r) of
\* gradA whose invocation ran holds learningRate * sum_i gradOutput[o] *
\* B[r,i] * input[i] and every element (r, i) of gradB whose invocation ran
\* holds learningRate * sum_o gradOutput[o] * A[o,r] * input[i], whatever the
\* arrays held before; every other element holds what it held before; and
\* the bound arrays (A and B among them) are as they were given.
C31_BackwardWritesGradients ==
    (probe.applied /\ probe.op = "backward")
    => LET p == probe.params
       IN  /\ probe.params = probe.given
           /\ \A idx \in BackwardIds :
                /\ probe.grads.gradA[idx + 1] =
                    IF idx \in probe.ran /\ idx < p.outputSize * p.loraRank
                    THEN GradARef(p, idx \div p.loraRank, idx % p.loraRank)
                    ELSE probe.stale
                /\ probe.grads.gradB[idx + 1] =
                    IF idx \in probe.ran /\ idx < p.loraRank * p.inputSize
                    THEN GradBRef(p, idx \div p.inputSize, idx % p.inputSize)
                    ELSE probe.stale

\* C31 witness: a dispatch with inputSize = outputSize = loraRank = 2 over
\* gradient arrays that held 5 everywhere; all invocations ran
C31_Witness ==
    /\ probe.applied /\ probe.op = "backward"
    /\ probe.params.inputSize = 2 /\ probe.params.outputSize = 2
    /\ probe.params.loraRank = 2
    /\ probe.stale = 5
    /\ probe.ran = BackwardIds
    /\ probe.grads.gradA[1] = GradARef(probe.params, 0, 0)
    /\ probe.grads.gradA[1] # probe.grads.gradA[4]
    /\ probe.grads.gradB[2] = GradBRef(probe.params, 0, 1)
    /\ probe.grads.gradA[5] = 5

---------------------------------------------------------------------------
(* extractLoRAWeights with the content of the buffers.  probe.loraA and    *)
(* probe.loraB are the content of the adapter buffers the fields hold;     *)
(* probe.heap is the host memory: every ArrayBuffer made, with its content *)
(* and whether it is detached; probe.staging is every staging buffer.  A   *)
(* Float32Array is the index of the ArrayBuffer it views.                  *)

\* extractLoRAWeights calls made
MaxReadbacks == 2

\* initializeLoRABuffers calls made
MaxBufferInits == 2

ReadbackVals == {-1, 2}
HostVals == {7}

\* new Float32Array(loraBSize): all zero
ZeroData(n) == [k \in 1 .. n |-> 0]

\* the elements a Float32Array over the ArrayBuffer reads (none once detached)
Elements(heap, id) == IF heap[id].detached THEN <<>> ELSE heap[id].data

\* a view of the mapped range itself
MappedSlice_NoCopy(heap, range) == <<heap, range>>

\* getMappedRange().slice(0): a new ArrayBuffer with the bytes of the range
MappedSlice(heap, range) ==
    <<Append(heap, [data |-> heap[range].data, detached |-> FALSE]), Len(heap) + 1>>

\* staging.getMappedRange(): an ArrayBuffer over the content of the staging buffer
GetMappedRange(heap, data) == Append(heap, [data |-> data, detached |-> FALSE])

\* staging.unmap(): the ArrayBuffer of the mapped range is detached
Unmap(heap, range) == [heap EXCEPT ![range].detached = TRUE]

InitReadback ==
    /\ Init

\* initialize(device, config); initializeLoRABuffers(inputSize, outputSize)
\* with rank 1: A of outputSize random elements, B of inputSize zeros
ReadbackInitBuffers ==
    /\ \/ ~probe.applied
       \/ probe.applied /\ probe.op = "extract" /\ probe.inits < MaxBufferInits
    /\ \E outputSize \in KernelDims, inputSize \in KernelDims :
       \E a \in [1 .. outputSize -> ReadbackVals] :
            probe' =
                IF ~probe.applied
                THEN [applied |-> TRUE, op |-> "extract", inits |-> 1,
                      loraA |-> a, loraB |-> ZeroData(inputSize),
                      heap |-> <<>>, staging |-> <<>>, extracts |-> <<>>,
                      written |-> {}]
                ELSE [probe EXCEPT !.inits = @ + 1, !.loraA = a,
                                   !.loraB = ZeroData(inputSize)]
    /\ UNCHANGED files
    /\ LoadFrame

\* extractLoRAWeights() up to its first await: two staging buffers of the
\* sizes of the adapter buffers, the two copies, the submit
ReadbackCall ==
    /\ probe.applied /\ probe.op = "extract"
    /\ Len(probe.extracts) < MaxReadbacks
    /\ LET n == Len(probe.staging)
       IN  probe' = [probe EXCEPT
                        !.staging = @ \o <<[data |-> probe.loraA, destroyed |-> FALSE],
                                           [data |-> probe.loraB, destroyed |-> FALSE]>>,
                        !.extracts = Append(@, [pc |-> "mapA", stagingA |-> n + 1,
                                                stagingB |-> n + 2,
                                                callA |-> probe.loraA,
                                                callB |-> probe.loraB,
                                                A |-> 0, B |-> 0])]
    /\ UNCHANGED files
    /\ LoadFrame

\* lines 276-284 for the extract x
ReadBack(p, k) ==
    LET x == p.extracts[k]
        h1 == GetMappedRange(p.heap, p.staging[x.stagingA].data)
        rangeA == Len(h1)
        sA == MappedSlice(h1, rangeA)
        h2 == GetMappedRange(sA[1], p.staging[x.stagingB].data)
        rangeB == Len(h2)
        sB == MappedSlice(h2, rangeB)
    IN  [p EXCEPT !.heap = Unmap(Unmap(sB[1], rangeA), rangeB),
                  !.staging[x.stagingA].destroyed = TRUE,
                  !.staging[x.stagingB].destroyed = TRUE,
                  !.extracts[k].pc = "returned",
                  !.extracts[k].A = sA[2],
                  !.extracts[k].B = sB[2]]

\* a mapAsync of an extract settles: resolved, the next await or the read
\* back and the return; rejected, the exception leaves extractLoRAWeights
ReadbackMapDone ==
    /\ probe.applied /\ probe.op = "extract"
    /\ \E k \in 1 .. Len(probe.extracts), resolved \in BOOLEAN :
        LET x == probe.extracts[k]
        IN  /\ x.pc \in {"mapA", "mapB"}
            /\ probe' =
                IF ~resolved THEN [probe EXCEPT !.extracts[k].pc = "rejected"]
                ELSE IF x.pc = "mapA" THEN [probe EXCEPT !.extracts[k].pc = "mapB"]
                ELSE ReadBack(probe, k)
    /\ UNCHANGED files
    /\ LoadFrame

\* the caller writes an element of an array an extract returned
HostWrite ==
    /\ probe.applied /\ probe.op = "extract"
    /\ \E k \in 1 .. Len(probe.extracts), which \in {"A", "B"}, v \in HostVals :
        LET x == probe.extracts[k]
            id == IF which = "A" THEN x.A ELSE x.B
        IN  /\ x.pc = "returned"
            /\ <<k, which>> \notin probe.written
            /\ ~probe.heap[id].detached
            /\ probe' = [probe EXCEPT !.heap[id].data[1] = v,
                                      !.written = @ \cup {<<k, which>>}]
    /\ UNCHANGED files
    /\ LoadFrame

NextReadback ==
    \/ ReadbackInitBuffers
    \/ ReadbackCall
    \/ ReadbackMapDone
    \/ HostWrite

SpecReadback == InitReadback /\ [][NextReadback]_vars

\* the arrays the extract k returned, as the caller reads them
Returned(p, k) ==
    [A |-> Elements(p.heap, p.extracts[k].A), B |-> Elements(p.heap, p.extracts[k].B)]

\* the ArrayBuffers behind the arrays that extracts returned
ReturnedIds(p) ==
    UNION {{p.extracts[k].A, p.extracts[k].B} :
            k \in {j \in 1 .. Len(p.extracts) : p.extracts[j].pc = "returned"}}

\* C32: an extract that returns gives two arrays over ArrayBuffers that did
\* not exist before and that hold the content the adapter buffers had when
\* it was called, whatever was written into arrays returned earlier; both its
\* staging buffers are destroyed when it returns; no step of an extract and
\* no write into a returned array changes the content of the adapter buffers
\* or an array returned by another extract.
C32_ExtractReturnsCopies ==
    [][(probe.applied /\ probe.op = "extract" /\ probe'.applied)
        => /\ \A k \in 1 .. Len(probe.extracts) :
                (probe.extracts[k].pc = "mapB" /\ probe'.extracts[k].pc = "returned")
                => LET x == probe'.extracts[k]
                   IN  /\ Returned(probe', k) = [A |-> x.callA, B |-> x.callB]
                       /\ x.A # x.B
                       /\ {x.A, x.B} \cap (1 .. Len(probe.heap)) = {}
                       /\ probe'.staging[x.stagingA].destroyed
                       /\ probe'.staging[x.stagingB].destroyed
           /\ (probe'.inits = probe.inits)
                => /\ probe'.loraA = probe.loraA
                   /\ probe'.loraB = probe.loraB
           /\ \A k \in 1 .. Len(probe.extracts) :
                (probe.extracts[k].pc = "returned"
                    /\ \A w \in probe'.written \ probe.written : w[1] # k)
                => Returned(probe', k) = Returned(probe, k)]_vars

\* C32 witness: the first extract returned A, the caller wrote 7 into it, and
\* a second extract returned the content of the adapter buffer
C32_Witness ==
    /\ probe.applied /\ probe.op = "extract"
    /\ Len(probe.extracts) = 2
    /\ probe.extracts[1].pc = "returned" /\ probe.extracts[2].pc = "returned"
    /\ <<1, "A">> \in probe.written
    /\ Returned(probe, 1).A[1] = 7
    /\ Returned(probe, 2).A = probe.loraA
    /\ Len(probe.loraA) = 2
    /\ probe.staging[3].destroyed /\ probe.staging[4].destroyed

---------------------------------------------------------------------------
(* Properties of the worker: checkpoint writes and batches *)

\* loop i is inside saveCheckpoint, between its first await and its return
Saving(l) == l.pc \in {"saveOpen", "saveWrite"}

\* the progress events of all sessions so far (one per executed batch)
RECURSIVE BatchesRun(_)
BatchesRun(ls) ==
    IF ls = <<>> THEN 0 ELSE Head(ls).nProgress + BatchesRun(Tail(ls))

\* while a checkpoint write is in progress and stays in progress, no batch
\* runs and the adapter being written does not change
NoBatchWhileSaving ==
    [][\A i \in 1 .. Len(loops) :
        (Saving(loops[i]) /\ Saving(loops'[i]))
        => /\ BatchesRun(loops') = BatchesRun(loops)
           /\ loops'[i].w = loops[i].w
           /\ loops'[i].epoch = loops[i].epoch]_vars

\* C33: a checkpoint write for epoch e is in progress only after every batch
\* of epoch e has run, no batch runs while a write is in progress, and the
\* first batch of epoch e+1 runs only once the write of epoch e has returned.
C33_SaveSerializedWithCompute ==
    [][\A i \in 1 .. Len(loops') :
        /\ Saving(loops'[i]) => loops'[i].epoch \in loops'[i].fullEpochs
        /\ (i <= Len(loops) /\ Saving(loops[i]) /\ Saving(loops'[i]))
            => /\ BatchesRun(loops') = BatchesRun(loops)
               /\ loops'[i].w = loops[i].w
        /\ (i <= Len(loops) /\ loops'[i].nProgress > loops[i].nProgress
                /\ loops'[i].epoch > loops[i].epoch)
            => /\ Saving(loops[i]) \/ ~checkpointDir
               /\ ~Saving(loops'[i])]_vars

---------------------------------------------------------------------------
(* Properties of the worker: progress events *)

\* (e1, b1) is before (e2, b2) in lexicographic order
LexLess(e1, b1, e2, b2) == e1 < e2 \/ (e1 = e2 /\ b1 < b2)

\* the batches a loop has executed when it waits after batch l.batch of epoch
\* l.epoch, counted from the position of the loop
BatchesUpTo(l) == (l.epoch - l.startEpoch) * TotalBatches + l.batch + 1

\* C34: every executed batch posts exactly one TRAINING_PROGRESS event: a loop
\* that waits after a batch has posted as many events as it has executed
\* batches, a loop that ran every batch of n epochs has posted n *
\* totalBatches events, a step posts at most one event, the event carries
\* 1 <= epoch <= totalEpochs and 1 <= batch <= totalBatches, and its (epoch,
\* batch) is lexicographically after that of the previous event of the
\* session.
C34_OneProgressPerBatch ==
    [][\A i \in 1 .. Len(loops') :
        LET l == loops'[i]
            before == IF i <= Len(loops) THEN loops[i] ELSE NewLoop
        IN  /\ l.pc \in {"telemetry", "sleep"} => l.nProgress = BatchesUpTo(l)
            /\ (l.pc = "done" /\ l.breakEpoch = -1 /\ before.pc # "done")
                => l.nProgress = Cardinality(l.fullEpochs) * TotalBatches
            /\ (l.pc # "retired" /\ l.nProgress # before.nProgress)
                => /\ l.nProgress = before.nProgress + 1
                   /\ lastPost' = ProgressMsg(l)
                   /\ lastPost'.type = "TRAINING_PROGRESS"
                   /\ 1 <= lastPost'.epoch /\ lastPost'.epoch <= lastPost'.totalEpochs
                   /\ 1 <= lastPost'.batch /\ lastPost'.batch <= lastPost'.totalBatches
                   /\ lastPost'.totalBatches = TotalBatches
                   /\ before.nProgress > 0
                        => LexLess(before.epoch, before.batch, l.epoch, l.batch)
            /\ (l.pc # "retired" /\ l.nProgress = before.nProgress
                    /\ lastPost'.type = "TRAINING_PROGRESS")
                => lastPost' = lastPost]_vars

\* C34 witness: a session that resumed after epoch 0 has posted the events of
\* both batches of epoch 1, the latest one (epoch 2, batch 2)
C34_Witness ==
    \E i \in 1 .. Len(loops) :
        /\ loops[i].pc = "sleep"
        /\ loops[i].startEpoch = 1 /\ loops[i].epoch = 1 /\ loops[i].batch = 1
        /\ loops[i].nProgress = 2
        /\ lastPost = [type |-> "TRAINING_PROGRESS", epoch |-> 2, totalEpochs |-> 2,
                       batch |-> 2, totalBatches |-> TotalBatches]

---------------------------------------------------------------------------
(* A session started over a directory that holds unreadable checkpoints *)

\* files the load cannot read: a payload that is not a whole number of
\* floats, a file created and never written (no newline), a first line that
\* is not JSON
UnreadableFiles(e) ==
    {Resized(f, n) : f \in SavedFiles(e), n \in {-1, 1}}
    \cup {EmptyFile}
    \cup {[f EXCEPT !.meta = NoMeta] : f \in SavedFiles(e)}

UnreadableDirs ==
    {[e \in EpochIds |-> AtEpoch(d[e], e)] :
        d \in [EpochIds -> SavedFiles(0) \cup UnreadableFiles(0) \cup {NoFile}]}

\* the worker after an INIT that acquired the device and the directory, the
\* directory holding files of earlier sessions; one START is still to come
InitUnreadable ==
    /\ isTraining = FALSE
    /\ shouldStop = FALSE
    /\ gpuDevice = TRUE
    /\ config \in Configs
    /\ checkpointDir = TRUE
    /\ files \in UnreadableDirs
    /\ loops = <<>>
    /\ posted = [k \in Kinds |-> 0]
    /\ lastPost = InitReply(TRUE, TRUE)
    /\ initGpu = 0
    /\ initOpfs = 0
    /\ liveDevices = 1
    /\ nInit = 1
    /\ nStart = MaxStarts - 1
    /\ trainedEpochs = {}
    /\ gpuAcq = "ok"
    /\ probe = NoProbe
    /\ engine = NoEngine

NextUnreadable ==
    \/ StartCmd
    \/ LoadDone
    \/ TelemetryDone
    \/ SleepDone
    \/ SaveOpenDone
    \/ SaveWriteDone

SpecUnreadable == InitUnreadable /\ [][NextUnreadable]_vars

\* the file the scan selects cannot be read
LatestUnreadable(dir) ==
    /\ Present(dir) # {}
    /\ LET f == dir[MaxOf(Present(dir))]
       IN  ~f.nl \/ ~f.meta.ok \/ Len(f.rest) % 4 # 0

ErrorsPosted(p) ==
    p["NoWebGPU"] + p["NoAdapter"] + p["GpuInitFailed"] + p["DeviceLost"]
    + p["OpfsFailed"] + p["NotInitialized"] + p["AlreadyRunning"]

\* C35: when the load of a session settles over a directory whose latest
\* checkpoint file is unreadable, it returns none; and whenever the load
\* returns none (an OPFS call threw, or the file is unreadable, or there is
\* no file) no ERROR is posted, the session starts at epoch 0 with an adapter
\* of AdapterSize newly drawn elements, and its first batch runs.
C35_LoadFailureAbsorbed ==
    [][\A i \in 1 .. Len(loops) :
        (loops[i].pc = "load" /\ loops'[i].pc # "load")
        => LET l == loops'[i]
           IN  /\ LatestUnreadable(files) => ~l.checkpoint.found
               /\ ~l.checkpoint.found
                    => /\ l.checkpoint = NoCheckpoint
                       /\ ErrorsPosted(posted') = ErrorsPosted(posted)
                       /\ lastPost'.type # "ERROR"
                       /\ l.startEpoch = 0
                       /\ l.w0 \in InitVecs
                       /\ l.epoch = 0 /\ l.batch = 0 /\ l.nProgress = 1
                       /\ l.pc = "telemetry"
                       /\ isTraining']_vars

\* C35 witness: the latest file (epoch 1) has a first line that is not JSON,
\* an older file is well formed; the session started at epoch 0
C35_Witness ==
    /\ files[1].exists /\ files[1].nl /\ ~files[1].meta.ok
    /\ WellFormed(files[0], 0)
    /\ Len(loops) = 1
    /\ loops[1].pc = "telemetry"
    /\ loops[1].startEpoch = 0 /\ loops[1].nProgress = 1
    /\ ~loops[1].checkpoint.found
    /\ ErrorsPosted(posted) = 0

---------------------------------------------------------------------------
(* Properties of the worker: a STOP after the last batch *)

\* C36: a loop that ran every batch of every epoch from its start epoch to
\* epochs - 1 and wrote the checkpoint of epoch epochs - 1 ends with the
\* terminal event 'completed', which carries its adapter.
C36_FinishedSessionCompletes ==
    \A i \in LoopIds :
        LET l == loops[i]
        IN  (/\ l.pc = "done"
             /\ l.startEpoch < l.epochs
             /\ l.fullEpochs = l.startEpoch .. (l.epochs - 1)
             /\ (l.epochs - 1) \in l.written)
            => /\ l.status = "completed"
               /\ lastPost.type = "TRAINING_COMPLETE" /\ lastPost.sid = i
                    => lastPost.weightsDelta = l.w

---------------------------------------------------------------------------
(* A STOP_TRAINING received while the worker is idle *)

\* The worker after an INIT that acquired the device and a STOP_TRAINING
\* received before any START_TRAINING: the handler has set the stop flag.
InitStoppedIdle ==
    /\ isTraining = FALSE
    /\ shouldStop = TRUE
    /\ gpuDevice = TRUE
    /\ config \in Configs
    /\ checkpointDir \in BOOLEAN
    /\ files = [e \in EpochIds |-> NoFile]
    /\ loops = <<>>
    /\ posted = [k \in Kinds |-> IF k = "OpfsFailed" /\ ~checkpointDir THEN 1 ELSE 0]
    /\ lastPost = InitReply(TRUE, checkpointDir)
    /\ initGpu = 0
    /\ initOpfs = 0
    /\ liveDevices = 1
    /\ nInit = 1
    /\ nStart = 0
    /\ trainedEpochs = {}
    /\ gpuAcq = "ok"
    /\ probe = NoProbe
    /\ engine = NoEngine

\* START_TRAINING commands, the loss of the device and the continuations of
\* the training loop: no further STOP_TRAINING is received
NextStoppedIdle ==
    \/ DeviceLost
    \/ StartCmd
    \/ LoadDone
    \/ TelemetryDone
    \/ SleepDone
    \/ SaveOpenDone
    \/ SaveWriteDone

SpecStoppedIdle == InitStoppedIdle /\ [][NextStoppedIdle]_vars /\ WF_vars(LoopStep)

\* the session ran with the stop flag down, no break, to 'completed'
RanToCompleted(l) ==
    /\ l.status = "completed"
    /\ l.breakEpoch = -1
    /\ l.fullEpochs = l.startEpoch .. (l.epochs - 1)

\* C37: after a STOP_TRAINING received while idle and with no further STOP,
\* the stop flag is down whenever a session is active, every session that has
\* ended ran all its epochs and posted 'completed', and every session that is
\* started ends so.
C37_IdleStopForgotten ==
    /\ [](\A i \in LoopIds :
            /\ Active(loops[i]) => ~shouldStop /\ isTraining
            /\ loops[i].pc = "done" => RanToCompleted(loops[i]))
    /\ ((\E i \in LoopIds : Active(loops[i]))
        ~> (/\ loops # <<>>
            /\ loops[Len(loops)].pc = "done"
            /\ RanToCompleted(loops[Len(loops)])
            /\ lastPost.type = "TRAINING_COMPLETE" /\ lastPost.kind = "completed"))

\* C37 witness: the first session after the idle STOP ended with 'completed'
\* after every batch of its two epochs
C37_Witness ==
    /\ Len(loops) = 1
    /\ loops[1].pc = "done" /\ loops[1].status = "completed"
    /\ loops[1].nProgress = 2 * TotalBatches
    /\ posted["stopped"] = 0 /\ posted["completed"] = 1
    /\ ~shouldStop

---------------------------------------------------------------------------
(* Properties of the worker: isTraining and GET_STATUS *)

ActiveLoops == {i \in LoopIds : Active(loops[i])}

\* C38: at most one training loop is active; isTraining is true exactly while
\* one is (false before the first accepted START and in the state in which
\* the terminal TRAINING_COMPLETE has been posted); a GET_STATUS reply carries
\* the isTraining of the worker, and the step that posts it changes nothing
\* else.
C38_IsTrainingIffActive ==
    [][/\ Cardinality(ActiveLoops)' <= 1
       /\ isTraining' <=> (ActiveLoops' # {})
       /\ (lastPost'.type = "TRAINING_COMPLETE" /\ lastPost' # lastPost) => ~isTraining'
       /\ (lastPost'.type = "GET_STATUS" /\ lastPost' # lastPost)
            => /\ lastPost'.isTraining = isTraining
               /\ lastPost'.hasGPU = gpuDevice
               /\ lastPost'.config = config
               /\ UNCHANGED <<isTraining, shouldStop, gpuDevice, config, checkpointDir,
                              files, loops, posted, initGpu, initOpfs, liveDevices,
                              nInit, trainedEpochs, gpuAcq>>]_vars

\* C38 witness: a second session is active after the first one ended, and the
\* latest GET_STATUS reply reports isTraining = true
C38_Witness ==
    /\ Len(loops) = 2
    /\ ~Active(loops[1]) /\ Active(loops[2])
    /\ isTraining
    /\ lastPost.type = "GET_STATUS" /\ lastPost.isTraining
    /\ posted["completed"] + posted["stopped"] = 1

---------------------------------------------------------------------------
(* FLProvider and its worker.  probe holds the React state of FLProvider   *)
(* (isInitialized, isTraining, hasGPU, error, progress, workerRef), the    *)
(* two message channels (toWorker: commands posted and not yet received;   *)
(* toCaller: events posted and not yet handled by onmessage), and the      *)
(* worker as the provider sees it: probe.w holds isTraining, shouldStop,   *)
(* config, gpuDevice and the training loop reduced to the batches it has   *)
(* left.  History: w.sid numbers the sessions, w.lost says the device was  *)
(* lost during the session, uploads lists the submitWeights fetches.       *)

\* startTraining calls made
MaxStartCalls == 2
\* stopTraining calls made
MaxStopCalls == 1
\* batches of a session
SessionBatches == 1

\* the useState and useRef initial values; the fingerprint has resolved
NewProvider ==
    [applied |-> TRUE, op |-> "caller",
     deviceId |-> TRUE, workerRef |-> FALSE, configRef |-> FALSE,
     isInitialized |-> FALSE, isTraining |-> FALSE, hasGPU |-> FALSE,
     error |-> FALSE, progress |-> FALSE,
     starts |-> 0, stops |-> 0,
     toWorker |-> <<>>, toCaller |-> <<>>,
     w |-> [isTraining |-> FALSE, shouldStop |-> FALSE, config |-> FALSE,
            gpuDevice |-> FALSE, left |-> 0, sid |-> 0, lost |-> FALSE],
     uploads |-> <<>>]

InitCaller ==
    /\ isTraining = FALSE
    /\ shouldStop = FALSE
    /\ gpuDevice = FALSE
    /\ config = NoConfig
    /\ checkpointDir = FALSE
    /\ files = [e \in EpochIds |-> NoFile]
    /\ loops = <<>>
    /\ posted = [k \in Kinds |-> 0]
    /\ lastPost = NoPost
    /\ initGpu = 0
    /\ initOpfs = 0
    /\ liveDevices = 0
    /\ nInit = 0
    /\ nStart = 0
    /\ trainedEpochs = {}
    /\ gpuAcq = "none"
    /\ probe = NewProvider
    /\ engine = NoEngine

CallerStep(p) ==
    /\ probe' = p
    /\ UNCHANGED files
    /\ LoadFrame

WorkerError(sid) == [type |-> "ERROR", status |-> "", sid |-> sid, lost |-> FALSE,
                     gpu |-> FALSE, opfs |-> FALSE]
WorkerInitReply(gpu, opfs) ==
    [type |-> "INIT", status |-> "", sid |-> 0, lost |-> FALSE, gpu |-> gpu, opfs |-> opfs]
WorkerProgress(sid) ==
    [type |-> "TRAINING_PROGRESS", status |-> "", sid |-> sid, lost |-> FALSE,
     gpu |-> FALSE, opfs |-> FALSE]
WorkerComplete(status, sid, lost) ==
    [type |-> "TRAINING_COMPLETE", status |-> status, sid |-> sid, lost |-> lost,
     gpu |-> FALSE, opfs |-> FALSE]

\* initialize(config): the worker is created, onmessage is set, INIT is posted
Initialize ==
    /\ probe.op = "caller" /\ ~probe.workerRef
    /\ CallerStep([probe EXCEPT !.error = FALSE, !.configRef = TRUE, !.workerRef = TRUE,
                                !.toWorker = Append(@, "INIT")])

\* startTraining(), also as the start_training tool calls it
StartTraining(p) ==
    IF ~p.workerRef \/ ~p.isInitialized
    THEN [p EXCEPT !.starts = @ + 1, !.error = TRUE]
    ELSE [p EXCEPT !.starts = @ + 1, !.isTraining = TRUE, !.error = FALSE,
                   !.toWorker = Append(@, "START_TRAINING")]

CallStartTraining ==
    /\ probe.op = "caller" /\ probe.starts < MaxStartCalls
    /\ CallerStep(StartTraining(probe))

\* stopTraining()
CallStopTraining ==
    /\ probe.op = "caller" /\ probe.stops < MaxStopCalls
    /\ CallerStep(IF probe.workerRef
                  THEN [probe EXCEPT !.stops = @ + 1,
                                     !.toWorker = Append(@, "STOP_TRAINING")]
                  ELSE [probe EXCEPT !.stops = @ + 1])

\* submitWeights(weightsDelta): one POST to /api/fl/updates
SubmitWeights(p, m) ==
    IF ~p.deviceId \/ ~p.configRef THEN p
    ELSE [p EXCEPT !.uploads = Append(@, [sid |-> m.sid, lost |-> m.lost])]

\* workerRef.current.onmessage
OnMessage(p, m) ==
    CASE m.type = "INIT" ->
            [p EXCEPT !.hasGPU = m.gpu, !.isInitialized = m.gpu /\ m.opfs,
                      !.error = IF ~m.gpu THEN TRUE ELSE @]
      [] m.type = "TRAINING_PROGRESS" -> [p EXCEPT !.progress = TRUE]
      [] m.type = "TRAINING_COMPLETE" ->
            LET q == [p EXCEPT !.isTraining = FALSE, !.progress = FALSE]
            IN  IF m.status = "completed" THEN SubmitWeights(q, m) ELSE q
      [] OTHER -> [p EXCEPT !.error = TRUE, !.isTraining = FALSE]

\* the provider handles the oldest event of the worker
HandleMessage ==
    /\ probe.op = "caller" /\ probe.toCaller # <<>>
    /\ CallerStep(OnMessage([probe EXCEPT !.toCaller = Tail(@)], Head(probe.toCaller)))

\* the worker's case 'INIT', to its reply: config is set, the device is
\* acquired or not, the directory is acquired or not
WorkerInit ==
    /\ probe.op = "caller" /\ probe.toWorker # <<>> /\ Head(probe.toWorker) = "INIT"
    /\ \E gpu \in BOOLEAN, opfs \in BOOLEAN :
        CallerStep([probe EXCEPT
            !.toWorker = Tail(@),
            !.w.config = TRUE,
            !.w.gpuDevice = gpu,
            !.toCaller = @ \o (IF gpu THEN <<>> ELSE <<WorkerError(0)>>)
                           \o (IF opfs THEN <<>> ELSE <<WorkerError(0)>>)
                           \o <<WorkerInitReply(gpu, opfs)>>])

\* the worker's case 'START_TRAINING', with runTrainingLoop to its first await
WorkerStart ==
    /\ probe.op = "caller" /\ probe.toWorker # <<>>
    /\ Head(probe.toWorker) = "START_TRAINING"
    /\ LET p == [probe EXCEPT !.toWorker = Tail(@)]
       IN  CallerStep(
            IF p.w.isTraining \/ ~p.w.config \/ ~p.w.gpuDevice
            THEN [p EXCEPT !.toCaller = Append(@, WorkerError(p.w.sid))]
            ELSE [p EXCEPT !.w.isTraining = TRUE, !.w.shouldStop = FALSE,
                           !.w.left = SessionBatches, !.w.sid = @ + 1,
                           !.w.lost = FALSE])

\* the worker's case 'STOP_TRAINING'
WorkerStop ==
    /\ probe.op = "caller" /\ probe.toWorker # <<>>
    /\ Head(probe.toWorker) = "STOP_TRAINING"
    /\ CallerStep([probe EXCEPT !.toWorker = Tail(@), !.w.shouldStop = TRUE])

\* runTrainingLoop resumes: the next batch and its progress event, or the
\* end of the loops and the terminal event
WorkerLoop ==
    /\ probe.op = "caller" /\ probe.w.isTraining
    /\ CallerStep(
        IF probe.w.left > 0 /\ ~probe.w.shouldStop
        THEN [probe EXCEPT !.w.left = @ - 1,
                           !.toCaller = Append(@, WorkerProgress(probe.w.sid))]
        ELSE [probe EXCEPT
                !.w.isTraining = FALSE,
                !.toCaller = Append(@, WorkerComplete(
                                IF probe.w.shouldStop THEN "stopped" ELSE "completed",
                                probe.w.sid, probe.w.lost))])

NextCaller ==
    \/ Initialize
    \/ CallStartTraining
    \/ CallStopTraining
    \/ HandleMessage
    \/ WorkerInit
    \/ WorkerStart
    \/ WorkerStop
    \/ WorkerLoop

SpecCaller == InitCaller /\ [][NextCaller]_vars

\* C39: whenever the worker is training and FLProvider has handled every
\* event the worker has posted, FLProvider's isTraining is true.
C39_MirrorTracksWorker ==
    (probe.op = "caller" /\ probe.w.isTraining /\ probe.toCaller = <<>>)
    => probe.isTraining

\* device.lost.then(...) in the worker: the error is posted and the handle
\* dropped; the training loop goes on
WorkerDeviceLost ==
    /\ probe.op = "caller" /\ probe.w.gpuDevice
    /\ CallerStep([probe EXCEPT !.w.gpuDevice = FALSE,
                                !.w.lost = probe.w.isTraining,
                                !.toCaller = Append(@, WorkerError(probe.w.sid))])

NextCallerLoss ==
    \/ Initialize
    \/ CallStartTraining
    \/ CallStopTraining
    \/ HandleMessage
    \/ WorkerInit
    \/ WorkerStart
    \/ WorkerStop
    \/ WorkerLoop
    \/ WorkerDeviceLost

\* FLProvider and its worker, with the loss of the device
SpecCallerLoss == InitCaller /\ [][NextCallerLoss]_vars

\* C40: a step in which FLProvider handles a TRAINING_COMPLETE with status
\* 'completed' makes exactly one upload, of the weights of that session; no
\* other step makes an upload; and no upload is ever made for a session that
\* ended with status 'stopped' or in which the worker posted the fatal
\* device-lost ERROR.
C40_UploadOncePerCompleted ==
    [][LET handled == IF probe.toCaller # <<>> /\ probe'.toCaller = Tail(probe.toCaller)
                      THEN Head(probe.toCaller) ELSE WorkerProgress(0)
       IN  /\ IF handled.type = "TRAINING_COMPLETE" /\ handled.status = "completed"
              THEN probe'.uploads = Append(probe.uploads,
                                           [sid |-> handled.sid, lost |-> handled.lost])
              ELSE probe'.uploads = probe.uploads
           /\ \A k \in 1 .. Len(probe'.uploads) : ~probe'.uploads[k].lost
           /\ \A a, b \in 1 .. Len(probe'.uploads) :
                probe'.uploads[a].sid = probe'.uploads[b].sid => a = b]_vars

====
